---- MODULE Spec2Model ----
(***************************************************************************)
(* State-machine model of the matching core of the HFT orderbook engine:   *)
(* Orderbook::ProcessRequests and the handlers it dispatches to            *)
(* (HandleAddOrder, CancelOrderInternal, HandleModifyOrder, MatchOrders),  *)
(* the level aggregates (UpdateLevelData), the risk gate and the order     *)
(* pool.  Order objects are shared_ptr<Order>; the model names each object *)
(* by a slot number and keeps the objects' fields in mem.                  *)
(***************************************************************************)
EXTENDS Integers, Sequences, FiniteSets, TLC

\* ---------------------------------------------------------------- bounds
MaxPrice == 2          \* request prices are 1..MaxPrice
MaxQty == 2            \* request quantities are 0..MaxQty, and one over the risk limit
MaxId == 3             \* order ids are 1..MaxId
MaxRequests == 3       \* requests dequeued in one run
InitialPoolSize == 1   \* slots pre-allocated by the pool (100000 in Orderbook())
RingSize == 3          \* size of requestQueue_ (65536 in Orderbook())
MaxSubmits == 5        \* calls of AddOrder/CancelOrder/ModifyOrder in one run
JournalSize == 2       \* SIZE of the journaler's entry_queue_ (65536)
BatchSize == 2         \* batch_size_ of the journaler (64)
MaxJournalRequests == 4  \* requests ProductionOrderbook's engine handles in one run

\* ---------------------------------------------------- program constants
maxOrderQuantity == 10000
maxPrice == 1000000
minPrice == 1

Prices == 1..MaxPrice
Quantities == (0..MaxQty) \cup {maxOrderQuantity + 1}
Ids == 1..MaxId
Slots == 1..(InitialPoolSize + MaxId + 1)
Sides == {"Buy", "Sell"}
OrderTypes == {"GoodTillCancel", "FillAndKill", "FillOrKill", "Market"}

NoReq == [type |-> "None"]
NoSnap == [view |-> << >>, incoming |-> << >>, pool |-> << >>, ordersRejected |-> 0]
\* No Add that rested without trading was the last request.
NoLast == [orderId |-> 0, view |-> << >>]
\* A pooled or freed slot: Acquire is always followed by Reset, which
\* overwrites every field, so the stale contents are never read.
Blank == [orderType |-> "Blank", orderId |-> 0, side |-> "Buy", price |-> 0,
          initialQuantity |-> 0, remainingQuantity |-> 0]

VARIABLES
    bids,             \* bids_: price -> FIFO of slots (std::map, greater<Price>)
    asks,             \* asks_: price -> FIFO of slots (std::map, less<Price>)
    orders,           \* orders_: order id -> OrderEntry
    data,             \* data_: price -> LevelData
    mem,              \* the Order objects, by slot
    pool,             \* orderPool_.pool_ (free list, LIFO)
    pc,               \* position of the matcher thread
    req,              \* the Request popped by ProcessRequests
    trades,           \* the Trades vector of the running MatchOrders call
    ordersProcessed,  \* ordersProcessed_
    dequeued,         \* number of requests popped so far
    fault,            \* "none", or the fatal error the matcher ran into
    placedAt,         \* slot -> number of the request that placed it (history)
    snap,             \* the book, the pool and the order as they were when req
                      \* was popped (history)
    last,             \* the last request handled, when it was an Add that rested
                      \* without trading: its order id and the book before it
                      \* (history)
    ordersRejected,   \* MetricsPublisher's orders_rejected
    mutex_,           \* orderPool_.mutex_: "free", or the thread that holds it
    acquiring,        \* the producer thread inside AcquireOrder
    releasing,        \* the matcher thread inside orderPool_.Release
    requestQueue,     \* requestQueue_: buffer_, head_, tail_
    producer,         \* the producer thread inside AddOrder/CancelOrder/ModifyOrder
    shutdown_,        \* the atomic flag ~Orderbook sets
    pushed,           \* history: the Requests whose Push succeeded, in order
    popped,           \* history: the Requests whose Pop succeeded, in order
    journaler,        \* IoUringJournaler: counters and entry_queue_
    writer,           \* the journaler's background_worker thread
    file,             \* the journal file: the entries written, in file order
    engine,           \* ProductionOrderbook's engine thread inside a handler
    price_indexed_book_,  \* ProductionOrderbook's book: orders_, id -> quantity
    admitted,         \* history: the requests the engine admitted, in order
    crossing,         \* the matcher inside one pass of MatchOrders' inner loop
    resetting,        \* a producer inside AcquireOrder, one field of Reset at a time
    running_,         \* IoUringJournaler::running_
    worker,           \* the position of background_worker
    indexed           \* a PriceIndexedOrderbook

\* The state of the threads' calls into the pool, step by step.
poolCalls == <<mutex_, acquiring, releasing>>

\* The inbound ring, the thread that feeds it and the shutdown flag.
ringVars == <<requestQueue, producer, shutdown_, pushed, popped>>

\* The journal and the engine that feeds it.
journalVars == <<journaler, writer, file, engine, price_indexed_book_, admitted>>

\* The inner loop of MatchOrders against a producer's AcquireOrder.
reuseVars == <<crossing, resetting>>

\* The journaler's run flag and its background thread.
drainVars == <<running_, worker>>

\* The state of the components that are followed on their own.
separateVars == <<reuseVars, drainVars, indexed>>

\* What the handlers of ProcessRequests never touch.
outside == <<poolCalls, ringVars, journalVars, separateVars>>

\* The members of Orderbook and the matcher thread's position.
orderbookVars == <<bids, asks, orders, data, mem, pool, pc, req, trades,
                   ordersProcessed, dequeued, fault, placedAt, snap, last>>

vars == <<bids, asks, orders, data, mem, pool, pc, req, trades,
          ordersProcessed, dequeued, fault, placedAt, snap, last, ordersRejected,
          outside>>

\* ------------------------------------------------------------- helpers
Min(a, b) == IF a <= b THEN a ELSE b
SetMax(S) == CHOOSE x \in S : \A y \in S : y <= x
SetMin(S) == CHOOSE x \in S : \A y \in S : x <= y
Last(s) == s[Len(s)]
Front(s) == SubSeq(s, 1, Len(s) - 1)
Range(s) == {s[i] : i \in 1..Len(s)}
RemoveKey(f, k) == [x \in (DOMAIN f) \ {k} |-> f[x]]
PutKey(f, k, v) == [x \in (DOMAIN f) \cup {k} |-> IF x = k THEN v ELSE f[x]]
\* An erase that leaves the list as it was.
EraseSlotKeeps(s, h) == s

\* std::list::erase(iterator): unlink the node holding slot h
EraseSlot(s, h) == SelectSeq(s, LAMBDA x : x # h)

\* The mutable state the handlers work on, as one record.
Book == [bids |-> bids, asks |-> asks, orders |-> orders, data |-> data,
         mem |-> mem, pool |-> pool, fault |-> fault, placedAt |-> placedAt]

Install(b) ==
    /\ bids' = b.bids
    /\ asks' = b.asks
    /\ orders' = b.orders
    /\ data' = b.data
    /\ mem' = b.mem
    /\ pool' = b.pool
    /\ fault' = b.fault
    /\ placedAt' = b.placedAt

\* What an observer of the book sees: both price maps, the id index, the
\* level aggregates and the resident orders' fields.
View(b) == [bids |-> b.bids, asks |-> b.asks, orders |-> b.orders, data |-> b.data,
            resident |-> [i \in DOMAIN b.orders |-> b.mem[b.orders[i].order]]]

NotAcquiring == [pc |-> "idle", order |-> 0]
NotReleasing == [pc |-> "idle", order |-> 0]

\* No thread is inside a call into the pool.
PoolCallsInit ==
    /\ mutex_ = "free"
    /\ acquiring = NotAcquiring
    /\ releasing = NotReleasing

NotSubmitting == [pc |-> "idle", item |-> NoReq]

\* LockFreeQueue(size): an empty ring, head_ = tail_ = 0.
EmptyQueue == [buffer_ |-> [i \in 0..(RingSize - 1) |-> NoReq], head_ |-> 0, tail_ |-> 0]

RingInit ==
    /\ requestQueue = EmptyQueue
    /\ producer = NotSubmitting
    /\ shutdown_ = FALSE
    /\ pushed = << >>
    /\ popped = << >>

\* IoUringJournaler(filename): counters at zero, entry_queue_ empty.
NewJournaler ==
    [sequence_number_ |-> 0, dropped_events_ |-> 0, pending_events_ |-> 0,
     events_logged_ |-> 0,
     entry_queue_ |-> [buffer_ |-> [i \in 0..(JournalSize - 1) |-> NoReq],
                       head_ |-> 0, tail_ |-> 0]]

NotHandling == [pc |-> "idle", req |-> NoReq, handled |-> 0]

JournalInit ==
    /\ journaler = NewJournaler
    /\ writer = [batch |-> << >>]
    /\ file = << >>
    /\ engine = NotHandling
    /\ price_indexed_book_ = << >>
    /\ admitted = << >>

\* The matcher at the top of the inner loop; bidWas and askWas are history:
\* the two orders as Fill left them.
NotCrossing == [pc |-> "top", bid |-> 0, ask |-> 0, quantity |-> 0,
                bidWas |-> Blank, askWas |-> Blank]

\* No AcquireOrder call under way; calls counts the calls made.
NotResetting == [pc |-> "idle", order |-> 0, to |-> Blank, calls |-> 0, field |-> 0]

ReuseInit ==
    /\ crossing = NotCrossing
    /\ resetting = NotResetting

\* background_worker at the test of its main loop; left is history: the
\* ring's entries at the moment the worker left the main loop.
WorkerStarted == [pc |-> "test", collected |-> 0, left |-> << >>]

\* start_background_thread has run.
DrainInit ==
    /\ running_ = TRUE
    /\ worker = WorkerStarted

\* PriceIndexedOrderbook's price range; MAX_PRICE is 1000000 in the source
\* and LevelPrices here, so that TLC can walk the level arrays.
LevelPrices == 2
MIN_PRICE == 0
MAX_PRICE == LevelPrices
TICK_SIZE == 1
PRICE_LEVELS == (MAX_PRICE - MIN_PRICE) + 1

\* PriceIndexedOrderbook(): empty levels, one per price, best bid 0 and best
\* ask MAX_PRICE.
NewPriceIndexedOrderbook ==
    LET levels == [i \in 0..(PRICE_LEVELS - 1) |->
                      [price |-> MIN_PRICE + i * TICK_SIZE,
                       total_quantity |-> 0, order_count |-> 0]]
    IN  [bid_levels_ |-> levels, ask_levels_ |-> levels,
         best_bid_price_ |-> 0, best_ask_price_ |-> MAX_PRICE,
         orders_ |-> << >>]

IndexedInit == indexed = NewPriceIndexedOrderbook

SeparateInit == ReuseInit /\ DrainInit /\ IndexedInit

OutsideInit == PoolCallsInit /\ RingInit /\ JournalInit /\ SeparateInit

Init ==
    /\ OutsideInit
    /\ bids = << >>
    /\ asks = << >>
    /\ orders = << >>
    /\ data = << >>
    /\ mem = [h \in Slots |-> Blank]
    /\ pool = [i \in 1..InitialPoolSize |-> i]
    /\ pc = "idle"
    /\ req = NoReq
    /\ trades = << >>
    /\ ordersProcessed = 0
    /\ dequeued = 0
    /\ fault = "none"
    /\ placedAt = [h \in Slots |-> 0]
    /\ snap = NoSnap
    /\ last = NoLast
    /\ ordersRejected = 0

\* ------------------------------------------------------------ Order
Reset(orderType, orderId, side, price, quantity) ==
    [orderType |-> orderType, orderId |-> orderId, side |-> side, price |-> price,
     initialQuantity |-> quantity, remainingQuantity |-> quantity]

IsFilled(o) == o.remainingQuantity = 0

\* Order::Fill throws std::logic_error when asked for more than remains.
FillThrows(o, quantity) == quantity > o.remainingQuantity

FillWhole(o, quantity) == [o EXCEPT !.remainingQuantity = 0]

Fill(o, quantity) == [o EXCEPT !.remainingQuantity = @ - quantity]

\* Order::ToGoodTillCancel throws std::logic_error unless the order is Market.
ToGoodTillCancelThrows(o) == o.orderType # "Market"

ToGoodTillCancel(o, price) ==
    [o EXCEPT !.price = price, !.orderType = "GoodTillCancel"]

\* ------------------------------------------------------- RiskManager
\* A gate that holds Market orders to the price range too.
CheckOrderMarketPriced(o) ==
    IF o.initialQuantity > maxOrderQuantity THEN "RejectedMaxQty"
    ELSE IF o.price > maxPrice \/ o.price < minPrice THEN "RejectedPriceRange"
    ELSE "Allowed"

CheckOrder(o) ==
    IF o.initialQuantity > maxOrderQuantity THEN "RejectedMaxQty"
    ELSE IF o.orderType # "Market" /\ (o.price > maxPrice \/ o.price < minPrice)
         THEN "RejectedPriceRange"
    ELSE "Allowed"

\* -------------------------------------------------------- ObjectPool
\* new T() of the fallback path: some address that holds no live object.
FreshSlot(b) ==
    SetMin({h \in Slots : b.mem[h] = Blank /\ h \notin Range(b.pool)})

\* ObjectPool::Acquire: the back of the free list, or a new object when the
\* free list is empty.  The result is the pool after the call and the slot.
Acquire(b) ==
    IF b.pool = << >>
    THEN [b |-> b, h |-> FreshSlot(b)]
    ELSE [b |-> [b EXCEPT !.pool = Front(@)], h |-> Last(b.pool)]

\* ObjectPool::Release: push the object onto the free list.
Release(b, h) ==
    [b EXCEPT !.pool = Append(@, h), !.mem[h] = Blank, !.placedAt[h] = 0]

\* Orderbook::AcquireOrder: Acquire, then Reset.
AcquireOrder(b, orderType, orderId, side, price, quantity) ==
    LET a == Acquire(b)
    IN  [b |-> [a.b EXCEPT !.mem[a.h] = Reset(orderType, orderId, side, price, quantity)],
         h |-> a.h]

\* The orders the Requests in the ring's buffer_ (popped ones included, until
\* the slot is written again) and in the producer's hands refer to.
RequestHeld ==
    LET buffered == {requestQueue.buffer_[i] : i \in DOMAIN requestQueue.buffer_}
    IN  {r.order : r \in {x \in buffered \cup {producer.item} : x.type = "Add"}}

\* An Order object no shared_ptr refers to any more is destroyed: after a
\* request only the book's orders and the pooled slots remain.
Collect(b) ==
    LET held == {b.orders[i].order : i \in DOMAIN b.orders}
                \cup UNION {Range(b.bids[p]) : p \in DOMAIN b.bids}
                \cup UNION {Range(b.asks[p]) : p \in DOMAIN b.asks}
                \cup RequestHeld
    IN  [b EXCEPT !.mem = [h \in Slots |-> IF h \in held THEN b.mem[h] ELSE Blank],
                  !.placedAt = [h \in Slots |-> IF h \in held THEN b.placedAt[h] ELSE 0]]

\* --------------------------------------------------- level aggregates
NoLevelData == [quantity |-> 0, count |-> 0]

\* Orderbook::UpdateLevelData on the map d; action is "Add", "Remove" or "Match".
UpdateLevelData(d, price, quantity, action) ==
    LET old == IF price \in DOMAIN d THEN d[price] ELSE NoLevelData
        new == [count |-> old.count + (IF action = "Remove" THEN -1
                                       ELSE IF action = "Add" THEN 1 ELSE 0),
                quantity |-> IF action \in {"Remove", "Match"}
                             THEN old.quantity - quantity
                             ELSE old.quantity + quantity]
    IN  IF new.count = 0 THEN RemoveKey(d, price) ELSE PutKey(d, price, new)

\* A notification that treats every fill as partial.
OnOrderMatchedPartial(d, price, quantity, isFullyFilled) ==
    UpdateLevelData(d, price, quantity, "Match")

\* Orderbook::OnOrderMatched
OnOrderMatched(d, price, quantity, isFullyFilled) ==
    UpdateLevelData(d, price, quantity, IF isFullyFilled THEN "Remove" ELSE "Match")

\* The faults that are C++ exceptions: nothing catches them on the matcher
\* thread, so the process terminates.  "front_of_empty_level" is the other
\* fault: std::list::front() on an empty list, which is undefined.
Thrown == {"logic_error", "out_of_range", "invalid_iterator"}

\* ------------------------------------------------ CancelOrderInternal
\* Cancel by id.  map::at throws when the order's price has no level; erasing
\* through an iterator that belongs to another list is undefined.
CancelOrderInternal(b, orderId) ==
    IF b.fault \in Thrown \/ orderId \notin DOMAIN b.orders THEN b
    ELSE
      LET entry == b.orders[orderId]
          h == entry.order
          o == b.mem[h]
          b1 == [b EXCEPT !.orders = RemoveKey(@, orderId)]
          level == IF o.side = "Sell" THEN b1.asks ELSE b1.bids
      IN  IF o.price \notin DOMAIN level
          THEN [b1 EXCEPT !.fault = "out_of_range"]
          ELSE IF entry.location # [side |-> o.side, price |-> o.price]
                  \/ h \notin Range(level[o.price])
          THEN [b1 EXCEPT !.fault = "invalid_iterator"]
          ELSE
            LET b2 == IF o.side = "Sell"
                      THEN [b1 EXCEPT !.asks[o.price] = EraseSlot(@, h)]
                      ELSE [b1 EXCEPT !.bids[o.price] = EraseSlot(@, h)]
                \* OnOrderCancelled
                b3 == [b2 EXCEPT !.data =
                          UpdateLevelData(@, o.price, o.remainingQuantity, "Remove")]
            IN  Release(b3, h)

\* ------------------------------------------------ CanMatch / CanFullyFill
CanMatchAlways(b, side, price) == TRUE

\* Orderbook::CanMatch: both branches return false (the price lookup is
\* commented out).
CanMatch(b, side, price) ==
    IF side = "Buy" THEN FALSE ELSE FALSE

RECURSIVE CanFullyFillFrom(_, _, _, _, _, _)
\* The loop of CanFullyFill over the levels in `left`.
CanFullyFillFrom(d, left, side, price, threshold, quantity) ==
    IF left = {} THEN FALSE
    ELSE
      LET levelPrice == CHOOSE p \in left : TRUE
          rest == left \ {levelPrice}
      IN  IF (side = "Buy" /\ threshold > levelPrice)
             \/ (side = "Sell" /\ threshold < levelPrice)
          THEN CanFullyFillFrom(d, rest, side, price, threshold, quantity)
          ELSE IF (side = "Buy" /\ levelPrice > price)
                  \/ (side = "Sell" /\ levelPrice < price)
          THEN CanFullyFillFrom(d, rest, side, price, threshold, quantity)
          ELSE IF quantity <= d[levelPrice].quantity THEN TRUE
          ELSE CanFullyFillFrom(d, rest, side, price, threshold,
                                quantity - d[levelPrice].quantity)

CanFullyFillAlways(b, side, price, quantity) == TRUE

\* Orderbook::CanFullyFill
CanFullyFill(b, side, price, quantity) ==
    IF ~CanMatch(b, side, price) THEN FALSE
    ELSE
      LET threshold == IF side = "Buy" THEN SetMin(DOMAIN b.asks)
                       ELSE SetMax(DOMAIN b.bids)
      IN  CanFullyFillFrom(b.data, DOMAIN b.data, side, price, threshold, quantity)

\* ------------------------------------------------------ HandleAddOrder
\* Top of book: the first key of each map (empty levels included, since the
\* maps are never erased from).
BestAskLast(b) == SetMax(DOMAIN b.asks)

BestBid(b) == SetMax(DOMAIN b.bids)
BestAsk(b) == SetMin(DOMAIN b.asks)
\* rbegin() of each map
WorstBid(b) == SetMin(DOMAIN b.bids)
WorstAsk(b) == SetMax(DOMAIN b.asks)

PushOrderFront(list, h) == <<h>> \o list

\* push_back on the level's list
PushOrder(list, h) == Append(list, h)

\* Lines 481-508: insert slot h (whose fields are final) at the tail of its
\* level, index it and update the aggregate.  n numbers the request.
PlaceOrder(b, h, n) ==
    LET o == b.mem[h]
        b1 == IF o.side = "Buy"
              THEN [b EXCEPT !.bids = PutKey(@, o.price,
                       PushOrder(IF o.price \in DOMAIN @ THEN @[o.price] ELSE << >>, h))]
              ELSE [b EXCEPT !.asks = PutKey(@, o.price,
                       PushOrder(IF o.price \in DOMAIN @ THEN @[o.price] ELSE << >>, h))]
        entry == [order |-> h, location |-> [side |-> o.side, price |-> o.price]]
    IN  [b1 EXCEPT
           \* unordered_map::insert keeps an existing entry
           !.orders = IF o.orderId \in DOMAIN @ THEN @ ELSE PutKey(@, o.orderId, entry),
           \* OnOrderAdded
           !.data = UpdateLevelData(@, o.price, o.initialQuantity, "Add"),
           !.placedAt[h] = n]

ContainsNever(b, orderId) == FALSE

\* orders_.contains(orderId), the duplicate check of HandleAddOrder
Contains(b, orderId) == orderId \in DOMAIN b.orders

\* Orderbook::HandleAddOrder up to its call of MatchOrders.  placed tells
\* whether the order entered the book (and MatchOrders runs next).
HandleAddOrder(b, h, n) ==
    LET o == b.mem[h]
        dropped == [b |-> b, placed |-> FALSE]
        bound(price) ==
            IF ToGoodTillCancelThrows(o)
            THEN [b |-> [b EXCEPT !.fault = "logic_error"], placed |-> FALSE]
            ELSE [b |-> PlaceOrder([b EXCEPT !.mem[h] = ToGoodTillCancel(o, price)], h, n),
                  placed |-> TRUE]
    IN  IF b.fault \in Thrown THEN dropped
        ELSE IF Contains(b, o.orderId) THEN dropped
        ELSE IF o.orderType = "Market"
        THEN IF o.side = "Buy" /\ DOMAIN b.asks # {} THEN bound(WorstAsk(b))
             ELSE IF o.side = "Sell" /\ DOMAIN b.bids # {} THEN bound(WorstBid(b))
             ELSE dropped
        ELSE IF o.orderType = "FillAndKill" /\ ~CanMatch(b, o.side, o.price) THEN dropped
        ELSE IF o.orderType = "FillOrKill"
                /\ ~CanFullyFill(b, o.side, o.price, o.initialQuantity) THEN dropped
        ELSE [b |-> PlaceOrder(b, h, n), placed |-> TRUE]

\* ---------------------------------------------------------- MatchOrders
MatchBreaksOnEqual(b) ==
    \/ DOMAIN b.bids = {}
    \/ DOMAIN b.asks = {}
    \/ BestBid(b) <= BestAsk(b)

\* The condition under which the while (true) loop breaks (lines 265-272).
MatchBreaks(b) ==
    \/ DOMAIN b.bids = {}
    \/ DOMAIN b.asks = {}
    \/ BestBid(b) < BestAsk(b)

\* The condition of the inner while loop (line 274) at the two top levels.
CanCross(b) ==
    /\ ~MatchBreaks(b)
    /\ b.bids[BestBid(b)] # << >>
    /\ b.asks[BestAsk(b)] # << >>

\* A quantity taken from the larger of the two orders.
TradeQuantityOfLarger(bid, ask) ==
    IF bid.remainingQuantity > ask.remainingQuantity
    THEN bid.remainingQuantity ELSE ask.remainingQuantity

TradeQuantity(bid, ask) == Min(bid.remainingQuantity, ask.remainingQuantity)

MakeTradeAtAskPrice(bid, ask, quantity) ==
    [bid |-> [orderId |-> bid.orderId, price |-> ask.price, quantity |-> quantity],
     ask |-> [orderId |-> ask.orderId, price |-> ask.price, quantity |-> quantity]]

MakeTrade(bid, ask, quantity) ==
    [bid |-> [orderId |-> bid.orderId, price |-> bid.price, quantity |-> quantity],
     ask |-> [orderId |-> ask.orderId, price |-> ask.price, quantity |-> quantity]]

\* One iteration of the inner loop (lines 276-309): the book after it and
\* the trade it appends.
CrossOnce(b) ==
    LET bidPrice == BestBid(b)
        askPrice == BestAsk(b)
        bh == Head(b.bids[bidPrice])
        ah == Head(b.asks[askPrice])
        quantity == TradeQuantity(b.mem[bh], b.mem[ah])
        bid == Fill(b.mem[bh], quantity)
        ask == Fill(b.mem[ah], quantity)
        b1 == [b EXCEPT !.mem[bh] = bid, !.mem[ah] = ask]
        b2 == IF IsFilled(bid)
              THEN Release([b1 EXCEPT !.bids[bidPrice] = Tail(@),
                                      !.orders = RemoveKey(@, bid.orderId)], bh)
              ELSE b1
        b3 == IF IsFilled(ask)
              THEN Release([b2 EXCEPT !.asks[askPrice] = Tail(@),
                                      !.orders = RemoveKey(@, ask.orderId)], ah)
              ELSE b2
        d1 == OnOrderMatched(b3.data, bid.price, quantity, IsFilled(bid))
        d2 == OnOrderMatched(d1, ask.price, quantity, IsFilled(ask))
    IN  IF FillThrows(b.mem[bh], quantity) \/ FillThrows(b.mem[ah], quantity)
        THEN [b |-> [b EXCEPT !.fault = "logic_error"], trade |-> << >>]
        ELSE [b |-> [b3 EXCEPT !.data = d2],
              trade |-> <<MakeTrade(bid, ask, quantity)>>]

\* Lines 331-337 and 339-345: after the loop, the head of the side's top level
\* is cancelled when it is FillAndKill.  The top level may be empty; front()
\* is then undefined: the process dies, or it reads an order that is no
\* FillAndKill order, or one that is and names some order id.
ResidueCheck(b, side) ==
    LET levels == IF side = "Buy" THEN b.bids ELSE b.asks
        top == IF side = "Buy" THEN BestBid(b) ELSE BestAsk(b)
    IN  IF DOMAIN levels = {} THEN {[b |-> b, abort |-> FALSE]}
        ELSE IF levels[top] = << >>
        THEN LET bf == [b EXCEPT !.fault = "front_of_empty_level"]
             IN  {[b |-> bf, abort |-> TRUE], [b |-> bf, abort |-> FALSE]}
                 \cup {[b |-> CancelOrderInternal(bf, i), abort |-> FALSE] :
                         i \in DOMAIN b.orders}
        ELSE LET o == b.mem[Head(levels[top])]
             IN  IF o.orderType = "FillAndKill"
                 THEN {[b |-> CancelOrderInternal(b, o.orderId), abort |-> FALSE]}
                 ELSE {[b |-> b, abort |-> FALSE]}

\* ------------------------------------------------------ ProcessRequests
\* The handler has returned: ordersProcessed_ is incremented (lines 61 and
\* 81).  An uncaught exception ends the process instead.
Complete(b) ==
    /\ Install(b)
    /\ pc' = IF b.fault \in Thrown THEN "aborted" ELSE "done"
    /\ ordersProcessed' = IF b.fault \in Thrown THEN ordersProcessed
                          ELSE ordersProcessed + 1
    /\ UNCHANGED <<req, trades, dequeued, snap, last, ordersRejected, outside>>

\* The handler goes on into MatchOrders, whose Trades vector starts empty.
EnterMatch(b) ==
    /\ Install(b)
    /\ pc' = IF b.fault \in Thrown THEN "aborted" ELSE "match"
    /\ trades' = << >>
    /\ UNCHANGED <<req, ordersProcessed, dequeued, snap, last, ordersRejected, outside>>

\* The process dies inside MatchOrders.
Abort(b) ==
    /\ Install(b)
    /\ pc' = "aborted"
    /\ UNCHANGED <<req, trades, ordersProcessed, dequeued, snap, last, ordersRejected, outside>>

CanPop == pc = "idle" /\ dequeued < MaxRequests

\* A producer draws an order from the pool (AcquireOrder), submits it
\* (AddOrder) and the matcher pops the Add request.
PopAdd(orderType, orderId, side, price, quantity) ==
    /\ CanPop
    /\ LET a == AcquireOrder(Book, orderType, orderId, side, price, quantity)
       IN  /\ Install(a.b)
           /\ req' = [type |-> "Add", order |-> a.h]
           /\ snap' = [view |-> View(Book), incoming |-> a.b.mem[a.h], pool |-> pool,
                 ordersRejected |-> ordersRejected]
    /\ pc' = "dispatch"
    /\ dequeued' = dequeued + 1
    /\ UNCHANGED <<trades, ordersProcessed, last, ordersRejected, outside>>

\* A producer submits CancelOrder(orderId) and the matcher pops it.
PopCancel(orderId) ==
    /\ CanPop
    /\ req' = [type |-> "Cancel", orderId |-> orderId]
    /\ snap' = [view |-> View(Book), incoming |-> Blank, pool |-> pool,
                 ordersRejected |-> ordersRejected]
    /\ pc' = "dispatch"
    /\ dequeued' = dequeued + 1
    /\ UNCHANGED <<bids, asks, orders, data, mem, pool, fault, placedAt,
                   trades, ordersProcessed, last, ordersRejected, outside>>

\* A producer submits ModifyOrder and the matcher pops it.
PopModify(orderId, side, price, quantity) ==
    /\ CanPop
    /\ req' = [type |-> "Modify",
               modify |-> [orderId |-> orderId, side |-> side, price |-> price,
                           quantity |-> quantity]]
    /\ snap' = [view |-> View(Book), incoming |-> Blank, pool |-> pool,
                 ordersRejected |-> ordersRejected]
    /\ pc' = "dispatch"
    /\ dequeued' = dequeued + 1
    /\ UNCHANGED <<bids, asks, orders, data, mem, pool, fault, placedAt,
                   trades, ordersProcessed, last, ordersRejected, outside>>

\* Lines 52-64 and 71-73: the risk gate, then HandleAddOrder.
ProcessAdd ==
    /\ pc = "dispatch"
    /\ req.type = "Add"
    /\ IF CheckOrder(mem[req.order]) # "Allowed"
       THEN Complete(Release(Book, req.order))
       ELSE LET r == HandleAddOrder(Book, req.order, dequeued)
            IN  IF r.placed THEN EnterMatch(r.b) ELSE Complete(r.b)

\* Lines 74-76: HandleCancelOrder.
ProcessCancel ==
    /\ pc = "dispatch"
    /\ req.type = "Cancel"
    /\ Complete(CancelOrderInternal(Book, req.orderId))

\* A Modify that places a new order when the id is not resident.
ProcessModifyUpsert ==
    /\ pc = "dispatch"
    /\ req.type = "Modify"
    /\ LET m == req.modify
           orderType == IF m.orderId \in DOMAIN orders
                        THEN mem[orders[m.orderId].order].orderType
                        ELSE "GoodTillCancel"
           b1 == CancelOrderInternal(Book, m.orderId)
           a == AcquireOrder(b1, orderType, m.orderId, m.side, m.price, m.quantity)
           r == HandleAddOrder(a.b, a.h, dequeued)
       IN  IF b1.fault \in Thrown THEN Complete(b1)
           ELSE IF r.placed THEN EnterMatch(r.b) ELSE Complete(r.b)

\* A Modify that rewrites the quantity where the order stands when neither
\* its side nor its price changes.
ProcessModifyInPlace ==
    /\ pc = "dispatch"
    /\ req.type = "Modify"
    /\ LET m == req.modify
       IN  IF m.orderId \notin DOMAIN orders
           THEN Complete(Book)
           ELSE LET h == orders[m.orderId].order
                    o == mem[h]
                    d1 == UpdateLevelData(data, o.price, o.remainingQuantity, "Remove")
                    b1 == CancelOrderInternal(Book, m.orderId)
                    a == AcquireOrder(b1, o.orderType, m.orderId, m.side, m.price,
                                      m.quantity)
                    r == HandleAddOrder(a.b, a.h, dequeued)
                IN  IF o.side = m.side /\ o.price = m.price
                    THEN EnterMatch([Book EXCEPT
                            !.mem[h] = Reset(o.orderType, o.orderId, o.side, o.price,
                                             m.quantity),
                            !.data = UpdateLevelData(d1, o.price, m.quantity, "Add")])
                    ELSE IF b1.fault \in Thrown THEN Complete(b1)
                    ELSE IF r.placed THEN EnterMatch(r.b) ELSE Complete(r.b)

\* Lines 77-79 and 518-533: HandleModifyOrder.
ProcessModify ==
    /\ pc = "dispatch"
    /\ req.type = "Modify"
    /\ LET m == req.modify
       IN  IF m.orderId \notin DOMAIN orders
           THEN Complete(Book)
           ELSE LET orderType == mem[orders[m.orderId].order].orderType
                    b1 == CancelOrderInternal(Book, m.orderId)
                    a == AcquireOrder(b1, orderType, m.orderId, m.side, m.price,
                                      m.quantity)
                    r == HandleAddOrder(a.b, a.h, dequeued)
                IN  IF b1.fault \in Thrown THEN Complete(b1)
                    ELSE IF r.placed THEN EnterMatch(r.b) ELSE Complete(r.b)

\* The head of the while (true) loop: it breaks, or it runs the inner loop.
\* When the top levels' keys cross and one of the two lists is empty the
\* inner loop has nothing to do and the outer loop comes round again with
\* nothing changed.
MatchLoop ==
    /\ pc = "match"
    /\ ~CanCross(Book)
    /\ pc' = IF MatchBreaks(Book) THEN "residue" ELSE "match"
    /\ UNCHANGED <<bids, asks, orders, data, mem, pool, fault, placedAt,
                   req, trades, ordersProcessed, dequeued, snap, last,
                   ordersRejected, outside>>

\* One iteration of the inner loop: one trade.
MatchCross ==
    /\ pc = "match"
    /\ CanCross(Book)
    /\ LET c == CrossOnce(Book)
       IN  /\ Install(c.b)
           /\ trades' = trades \o c.trade
           /\ pc' = IF c.b.fault \in Thrown THEN "aborted" ELSE "match"
    /\ UNCHANGED <<req, ordersProcessed, dequeued, snap, last, ordersRejected, outside>>

\* After the loop: the two FillAndKill residue checks, then the return to
\* ProcessRequests.
MatchResidue ==
    /\ pc = "residue"
    /\ \E r1 \in ResidueCheck(Book, "Buy") :
          IF r1.abort \/ r1.b.fault \in Thrown
          THEN Abort(r1.b)
          ELSE \E r2 \in ResidueCheck(r1.b, "Sell") :
                  IF r2.abort THEN Abort(r2.b) ELSE Complete(r2.b)

\* Lines 85-102: the end of the loop body.  The Request goes out of scope,
\* and with it the last reference to an order that was dropped.
LoopBack ==
    /\ pc = "done"
    /\ Install(Collect(Book))
    /\ pc' = "idle"
    /\ req' = NoReq
    /\ trades' = << >>
    /\ snap' = NoSnap
    /\ last' = IF /\ req.type = "Add"
                  /\ trades = << >>
                  /\ snap.incoming.orderId \in DOMAIN orders
                  /\ orders[snap.incoming.orderId].order = req.order
               THEN [orderId |-> snap.incoming.orderId, view |-> snap.view]
               ELSE NoLast
    /\ UNCHANGED <<ordersProcessed, dequeued, ordersRejected, outside>>

Pop ==
    \/ \E t \in OrderTypes, i \in Ids, s \in Sides, p \in Prices, q \in Quantities :
          PopAdd(t, i, s, p, q)
    \/ \E i \in Ids : PopCancel(i)
    \/ \E i \in Ids, s \in Sides, p \in Prices, q \in Quantities :
          PopModify(i, s, p, q)

Matcher ==
    \/ ProcessAdd
    \/ ProcessCancel
    \/ ProcessModify
    \/ MatchLoop
    \/ MatchCross
    \/ MatchResidue
    \/ LoopBack

Next == Pop \/ Matcher

Spec == Init /\ [][Next]_vars

\* The matcher thread runs for as long as the process does.
FairSpec == Spec /\ WF_vars(Matcher)

\* ----------------------------------------------- the risk gate alone
\* The first request of a run, an Add, with prices and quantities on both
\* sides of every limit of RiskManager::Config.
RiskPrices == {minPrice - 1, minPrice, maxPrice, maxPrice + 1}
RiskQuantities == {0, 1, maxOrderQuantity, maxOrderQuantity + 1}

\* The book Orderbook() constructs.
InitBook ==
    [bids |-> << >>, asks |-> << >>, orders |-> << >>, data |-> << >>,
     mem |-> [h \in Slots |-> Blank], pool |-> [i \in 1..InitialPoolSize |-> i],
     fault |-> "none", placedAt |-> [h \in Slots |-> 0]]

\* The matcher has popped the first request: an Add of an order a producer
\* drew from the pool.
RiskInit ==
    \E t \in OrderTypes, i \in Ids, s \in Sides, p \in RiskPrices, q \in RiskQuantities :
        LET a == AcquireOrder(InitBook, t, i, s, p, q)
        IN  /\ bids = a.b.bids
            /\ asks = a.b.asks
            /\ orders = a.b.orders
            /\ data = a.b.data
            /\ mem = a.b.mem
            /\ pool = a.b.pool
            /\ fault = a.b.fault
            /\ placedAt = a.b.placedAt
            /\ pc = "dispatch"
            /\ req = [type |-> "Add", order |-> a.h]
            /\ trades = << >>
            /\ ordersProcessed = 0
            /\ dequeued = 1
            /\ snap = [view |-> View(InitBook), incoming |-> a.b.mem[a.h],
                       pool |-> InitBook.pool, ordersRejected |-> 0]
            /\ last = NoLast
            /\ ordersRejected = 0
            /\ OutsideInit

\* The handling of that one request.
RiskNext == ProcessAdd \/ MatchLoop \/ MatchResidue \/ LoopBack

RiskSpec == RiskInit /\ [][RiskNext]_vars

\* ------------------------------------------- the pool under two threads
\* A producer inside Orderbook::AcquireOrder and the matcher inside
\* ObjectPool::Release, one step per statement.  std::lock_guard waits for
\* as long as another thread holds mutex_.

\* The orders some thread holds: handed out by the pool and not given back.
Outstanding ==
    {h \in Slots : mem[h] # Blank} \cup ({acquiring.order} \ {0})

\* AcquireOrder calls orderPool_.Acquire().
AcquireCall ==
    /\ acquiring.pc = "idle"
    /\ Cardinality(Outstanding) < MaxId
    /\ acquiring' = [acquiring EXCEPT !.pc = "lock"]
    /\ UNCHANGED <<bids, asks, orders, data, mem, pool, pc, req, trades,
                   ordersProcessed, dequeued, fault, placedAt, snap, last,
                   ordersRejected, mutex_, releasing, ringVars, journalVars, separateVars>>

\* std::lock_guard<std::mutex> lock(mutex_) in Acquire.
AcquireLock ==
    /\ acquiring.pc = "lock"
    /\ mutex_ = "free"
    /\ mutex_' = "producer"
    /\ acquiring' = [acquiring EXCEPT !.pc = "locked"]
    /\ UNCHANGED <<bids, asks, orders, data, mem, pool, pc, req, trades,
                   ordersProcessed, dequeued, fault, placedAt, snap, last,
                   ordersRejected, releasing, ringVars, journalVars, separateVars>>

\* The body of Acquire, with the lock held.
AcquireTake ==
    /\ acquiring.pc = "locked"
    /\ LET a == Acquire(Book)
       IN  /\ pool' = a.b.pool
           /\ acquiring' = [acquiring EXCEPT !.pc = "unlock", !.order = a.h]
    /\ UNCHANGED <<bids, asks, orders, data, mem, pc, req, trades,
                   ordersProcessed, dequeued, fault, placedAt, snap, last,
                   ordersRejected, mutex_, releasing, ringVars, journalVars, separateVars>>

\* Acquire returns: the lock_guard is destroyed.
AcquireUnlock ==
    /\ acquiring.pc = "unlock"
    /\ mutex_' = "free"
    /\ acquiring' = [acquiring EXCEPT !.pc = "reset"]
    /\ UNCHANGED <<bids, asks, orders, data, mem, pool, pc, req, trades,
                   ordersProcessed, dequeued, fault, placedAt, snap, last,
                   ordersRejected, releasing, ringVars, journalVars, separateVars>>

\* order->Reset(...) and the return of AcquireOrder.
AcquireReset ==
    /\ acquiring.pc = "reset"
    /\ \E i \in Ids :
          mem' = [mem EXCEPT ![acquiring.order] =
                      Reset("GoodTillCancel", i, "Buy", 1, 1)]
    /\ acquiring' = NotAcquiring
    /\ UNCHANGED <<bids, asks, orders, data, pool, pc, req, trades,
                   ordersProcessed, dequeued, fault, placedAt, snap, last,
                   ordersRejected, mutex_, releasing, ringVars, journalVars, separateVars>>

\* The matcher calls orderPool_.Release(order) for an order it is done with.
ReleaseCall ==
    /\ releasing.pc = "idle"
    /\ \E h \in Outstanding \ {acquiring.order} :
          releasing' = [pc |-> "lock", order |-> h]
    /\ UNCHANGED <<bids, asks, orders, data, mem, pool, pc, req, trades,
                   ordersProcessed, dequeued, fault, placedAt, snap, last,
                   ordersRejected, mutex_, acquiring, ringVars, journalVars, separateVars>>

\* std::lock_guard<std::mutex> lock(mutex_) in Release.
ReleaseLock ==
    /\ releasing.pc = "lock"
    /\ mutex_ = "free"
    /\ mutex_' = "matcher"
    /\ releasing' = [releasing EXCEPT !.pc = "locked"]
    /\ UNCHANGED <<bids, asks, orders, data, mem, pool, pc, req, trades,
                   ordersProcessed, dequeued, fault, placedAt, snap, last,
                   ordersRejected, acquiring, ringVars, journalVars, separateVars>>

\* pool_.push_back(obj), with the lock held.
ReleasePush ==
    /\ releasing.pc = "locked"
    /\ LET b == Release(Book, releasing.order)
       IN  /\ pool' = b.pool
           /\ mem' = b.mem
           /\ placedAt' = b.placedAt
    /\ releasing' = [releasing EXCEPT !.pc = "unlock"]
    /\ UNCHANGED <<bids, asks, orders, data, pc, req, trades,
                   ordersProcessed, dequeued, fault, snap, last,
                   ordersRejected, mutex_, acquiring, ringVars, journalVars, separateVars>>

\* Release returns: the lock_guard is destroyed.
ReleaseUnlock ==
    /\ releasing.pc = "unlock"
    /\ mutex_' = "free"
    /\ releasing' = NotReleasing
    /\ UNCHANGED <<bids, asks, orders, data, mem, pool, pc, req, trades,
                   ordersProcessed, dequeued, fault, placedAt, snap, last,
                   ordersRejected, acquiring, ringVars, journalVars, separateVars>>

PoolNext ==
    \/ AcquireCall
    \/ AcquireLock
    \/ AcquireTake
    \/ AcquireUnlock
    \/ AcquireReset
    \/ ReleaseCall
    \/ ReleaseLock
    \/ ReleasePush
    \/ ReleaseUnlock

PoolSpec == Init /\ [][PoolNext]_vars

\* --------------------------------------------- the ring under two threads
\* One producer thread inside AddOrder/CancelOrder/ModifyOrder and the
\* matcher thread inside ProcessRequests, one step per access to the memory
\* the two share: head_, tail_ and buffer_.

\* What a producer submits in these runs: main()'s two orders, a buy and a
\* sell at one price, a cancel of the first and a modify of the second.
RingAdds == {[orderId |-> 1, side |-> "Buy"], [orderId |-> 2, side |-> "Sell"]}
RingCancels == {1}
RingModifies == {[orderId |-> 2, side |-> "Buy"]}

Capacity == RingSize

NextIndex(i) == (i + 1) % RingSize

PushFullNever(q) == FALSE

\* Push: `if (nextTail == head_.load(acquire)) return false;`
PushFull(q) == NextIndex(q.tail_) = q.head_

\* Pop and IsEmpty: head_ == tail_.
IsEmpty(q) == q.head_ = q.tail_

\* Size(), the number of Requests pushed and not yet popped.
Size(q) ==
    IF q.tail_ >= q.head_ THEN q.tail_ - q.head_ ELSE RingSize - (q.head_ - q.tail_)

\* high_resolution_clock::now() of the producer's next call: later than that
\* of every call before.
Now == Len(pushed) + 1

\* The producer can be handed an order: new T() has an address to give.
CanAcquire ==
    pool # << >> \/ \E h \in Slots : mem[h] = Blank /\ h \notin Range(pool)

CanSubmit ==
    /\ producer.pc = "idle"
    /\ ~shutdown_
    /\ Len(pushed) < MaxSubmits

\* AcquireOrder, then AddOrder up to its push loop.
SubmitAdd(orderType, orderId, side, price, quantity) ==
    /\ CanSubmit
    /\ CanAcquire
    /\ LET a == AcquireOrder(Book, orderType, orderId, side, price, quantity)
       IN  /\ mem' = a.b.mem
           /\ pool' = a.b.pool
           /\ producer' = [pc |-> "push",
                           item |-> [type |-> "Add", order |-> a.h, timestamp |-> Now]]
    /\ UNCHANGED <<bids, asks, orders, data, pc, req, trades, ordersProcessed,
                   dequeued, fault, placedAt, snap, last, ordersRejected,
                   poolCalls, requestQueue, shutdown_, pushed, popped, journalVars, separateVars>>

\* A CancelOrder that cancels where it stands, without the ring.
SubmitCancelDirect(orderId) ==
    /\ CanSubmit
    /\ Install(CancelOrderInternal(Book, orderId))
    /\ producer' = [pc |-> "push",
                    item |-> [type |-> "Cancel", orderId |-> orderId, timestamp |-> Now]]
    /\ UNCHANGED <<pc, req, trades, ordersProcessed, dequeued, snap, last,
                   ordersRejected, poolCalls, requestQueue, shutdown_, pushed, popped, journalVars, separateVars>>

\* CancelOrder up to its push loop.
SubmitCancel(orderId) ==
    /\ CanSubmit
    /\ producer' = [pc |-> "push",
                    item |-> [type |-> "Cancel", orderId |-> orderId, timestamp |-> Now]]
    /\ UNCHANGED <<bids, asks, orders, data, mem, pool, pc, req, trades,
                   ordersProcessed, dequeued, fault, placedAt, snap, last,
                   ordersRejected, poolCalls, requestQueue, shutdown_, pushed, popped, journalVars, separateVars>>

\* ModifyOrder up to its push loop.
SubmitModify(orderId, side, price, quantity) ==
    /\ CanSubmit
    /\ producer' = [pc |-> "push",
                    item |-> [type |-> "Modify",
                              modify |-> [orderId |-> orderId, side |-> side,
                                          price |-> price, quantity |-> quantity],
                              timestamp |-> Now]]
    /\ UNCHANGED <<bids, asks, orders, data, mem, pool, pc, req, trades,
                   ordersProcessed, dequeued, fault, placedAt, snap, last,
                   ordersRejected, poolCalls, requestQueue, shutdown_, pushed, popped, journalVars, separateVars>>

\* Push, lines 15-21: the test for a full ring.  A false return sends the
\* caller to std::this_thread::yield().
PushTest ==
    /\ producer.pc = "push"
    /\ producer' = [producer EXCEPT !.pc = IF PushFull(requestQueue)
                                           THEN "yield" ELSE "write"]
    /\ UNCHANGED <<bids, asks, orders, data, mem, pool, pc, req, trades,
                   ordersProcessed, dequeued, fault, placedAt, snap, last,
                   ordersRejected, poolCalls, requestQueue, shutdown_, pushed, popped, journalVars, separateVars>>

\* `while (!requestQueue_.Push(req)) { std::this_thread::yield(); }`
PushRetry ==
    /\ producer.pc = "yield"
    /\ producer' = [producer EXCEPT !.pc = "push"]
    /\ UNCHANGED <<bids, asks, orders, data, mem, pool, pc, req, trades,
                   ordersProcessed, dequeued, fault, placedAt, snap, last,
                   ordersRejected, poolCalls, requestQueue, shutdown_, pushed, popped, journalVars, separateVars>>

\* Push, line 23: buffer_[currentTail] = item.
PushWrite ==
    /\ producer.pc = "write"
    /\ requestQueue' = [requestQueue EXCEPT !.buffer_[requestQueue.tail_] = producer.item]
    /\ producer' = [producer EXCEPT !.pc = "publish"]
    /\ UNCHANGED <<bids, asks, orders, data, mem, pool, pc, req, trades,
                   ordersProcessed, dequeued, fault, placedAt, snap, last,
                   ordersRejected, poolCalls, shutdown_, pushed, popped, journalVars, separateVars>>

\* Push, lines 24-25: tail_.store(nextTail, release); the call returns.
PushPublish ==
    /\ producer.pc = "publish"
    /\ requestQueue' = [requestQueue EXCEPT !.tail_ = NextIndex(@)]
    /\ pushed' = Append(pushed, producer.item)
    /\ producer' = NotSubmitting
    /\ UNCHANGED <<bids, asks, orders, data, mem, pool, pc, req, trades,
                   ordersProcessed, dequeued, fault, placedAt, snap, last,
                   ordersRejected, poolCalls, shutdown_, popped, journalVars, separateVars>>

\* The thread that submits.
Producer ==
    \/ \E a \in RingAdds : SubmitAdd("GoodTillCancel", a.orderId, a.side, 1, 1)
    \/ \E i \in RingCancels : SubmitCancel(i)
    \/ \E m \in RingModifies : SubmitModify(m.orderId, m.side, 1, 1)
    \/ PushTest
    \/ PushRetry
    \/ PushWrite
    \/ PushPublish

\* ~Orderbook: shutdown_.store(true).  The owner destroys the book when it
\* has stopped submitting; join() returns when the matcher has exited.
Shutdown ==
    /\ producer.pc = "idle"
    /\ ~shutdown_
    /\ shutdown_' = TRUE
    /\ UNCHANGED <<bids, asks, orders, data, mem, pool, pc, req, trades,
                   ordersProcessed, dequeued, fault, placedAt, snap, last,
                   ordersRejected, poolCalls, requestQueue, producer, pushed, popped, journalVars, separateVars>>

\* `while (!shutdown_.load(acquire) || !requestQueue_.IsEmpty())`
LoopTest ==
    /\ pc = "idle"
    /\ pc' = IF shutdown_ /\ IsEmpty(requestQueue) THEN "exited" ELSE "pop"
    /\ UNCHANGED <<bids, asks, orders, data, mem, pool, req, trades,
                   ordersProcessed, dequeued, fault, placedAt, snap, last,
                   ordersRejected, outside>>

\* Pop, lines 30-35: the test for an empty ring.  A false return sends the
\* matcher to yield() and back to the head of its loop.
PopTest ==
    /\ pc = "pop"
    /\ pc' = IF IsEmpty(requestQueue) THEN "idle" ELSE "take"
    /\ UNCHANGED <<bids, asks, orders, data, mem, pool, req, trades,
                   ordersProcessed, dequeued, fault, placedAt, snap, last,
                   ordersRejected, outside>>

\* Pop, line 37: item = buffer_[currentHead].
PopTake ==
    /\ pc = "take"
    /\ req' = requestQueue.buffer_[requestQueue.head_]
    /\ pc' = "store"
    /\ UNCHANGED <<bids, asks, orders, data, mem, pool, trades,
                   ordersProcessed, dequeued, fault, placedAt, snap, last,
                   ordersRejected, outside>>

\* Pop, lines 38-39: head_.store(next, release); the call returns true and
\* the matcher goes on to the request.
PopStore ==
    /\ pc = "store"
    /\ requestQueue' = [requestQueue EXCEPT !.head_ = NextIndex(@)]
    /\ popped' = Append(popped, req)
    /\ pc' = "dispatch"
    /\ dequeued' = dequeued + 1
    /\ snap' = [view |-> View(Book),
                incoming |-> IF req.type = "Add" THEN mem[req.order] ELSE Blank,
                pool |-> pool, ordersRejected |-> ordersRejected]
    /\ UNCHANGED <<bids, asks, orders, data, mem, pool, req, trades,
                   ordersProcessed, fault, placedAt, last, ordersRejected,
                   poolCalls, producer, shutdown_, pushed, journalVars, separateVars>>

\* The matcher thread: the loop of ProcessRequests and the handlers.
RingMatcher ==
    \/ LoopTest
    \/ PopTest
    \/ PopTake
    \/ PopStore
    \/ Matcher

RingNext == Producer \/ Shutdown \/ RingMatcher

RingSpec == Init /\ [][RingNext]_vars

\* Both threads run for as long as the process does.
FairRingSpec == RingSpec /\ WF_vars(RingMatcher) /\ WF_vars(Producer)

\* ------------------------------------------------------- the journal
\* ProductionOrderbook's engine thread handing entries to IoUringJournaler,
\* and the journaler's background_worker writing them to the file.  Risk
\* management and journaling are enabled, as Config has them by default;
\* write() is taken to succeed.

\* What the engine is asked in these runs.
JournalIds == {1, 2}
JournalQuantities == {1, maxOrderQuantity + 1}

\* `& MASK`, SIZE being a power of two.
Masked(i) == i % JournalSize

\* LockFreeQueue::try_push of the journaler's entry_queue_.
try_push(q, entry) ==
    IF Masked(q.tail_ + 1) = q.head_
    THEN [ok |-> FALSE, q |-> q]
    ELSE [ok |-> TRUE,
          q |-> [q EXCEPT !.buffer_[q.tail_] = entry, !.tail_ = Masked(@ + 1)]]

\* LockFreeQueue::try_pop: the entry at head_, unless the queue is empty.
try_pop(q) ==
    IF q.head_ = q.tail_
    THEN [ok |-> FALSE, q |-> q, entry |-> NoReq]
    ELSE [ok |-> TRUE, q |-> [q EXCEPT !.head_ = Masked(@ + 1)],
          entry |-> q.buffer_[q.head_]]

\* convert_to_journal_entry for an OrderPointer.
convert_to_journal_entry(order) ==
    [type |-> "Add", order_id |-> order.orderId, quantity |-> order.initialQuantity,
     sequence_number |-> 0]

\* A Log that drops without counting.
LogUncounted(j, event) ==
    LET entry == [convert_to_journal_entry(event) EXCEPT
                      !.sequence_number = j.sequence_number_]
        j1 == [j EXCEPT !.sequence_number_ = @ + 1]
        r == try_push(j1.entry_queue_, entry)
    IN  IF ~r.ok
        THEN j1
        ELSE [j1 EXCEPT !.entry_queue_ = r.q, !.pending_events_ = @ + 1]

\* IoUringJournaler::Log.
Log(j, event) ==
    LET entry == [convert_to_journal_entry(event) EXCEPT
                      !.sequence_number = j.sequence_number_]
        j1 == [j EXCEPT !.sequence_number_ = @ + 1]
        r == try_push(j1.entry_queue_, entry)
    IN  IF ~r.ok
        THEN [j1 EXCEPT !.dropped_events_ = @ + 1]
        ELSE [j1 EXCEPT !.entry_queue_ = r.q, !.pending_events_ = @ + 1]

\* engine_loop: request_queue_.Pop(req) gives the engine its next request.
EnginePop(r) ==
    /\ engine.pc = "idle"
    /\ engine.handled < MaxJournalRequests
    /\ engine' = [engine EXCEPT !.pc = "dispatch", !.req = r]
    /\ UNCHANGED <<orderbookVars, ordersRejected, poolCalls, ringVars, separateVars,
                   journaler, writer, file, price_indexed_book_, admitted>>

\* ProcessAddOrder, the risk check: a rejected order is counted and dropped.
ProcessAddOrderRisk ==
    /\ engine.pc = "dispatch"
    /\ engine.req.type = "Add"
    /\ IF CheckOrder(engine.req.order) # "Allowed"
       THEN /\ ordersRejected' = ordersRejected + 1
            /\ engine' = [pc |-> "idle", req |-> NoReq, handled |-> engine.handled + 1]
            /\ UNCHANGED admitted
       ELSE /\ admitted' = Append(admitted, engine.req)
            /\ engine' = [engine EXCEPT !.pc = "log"]
            /\ UNCHANGED ordersRejected
    /\ UNCHANGED <<orderbookVars, poolCalls, ringVars, separateVars,
                   journaler, writer, file, price_indexed_book_>>

\* ProcessAddOrder: journaler_->Log(order).
ProcessAddOrderLog ==
    /\ engine.pc = "log"
    /\ journaler' = Log(journaler, engine.req.order)
    /\ engine' = [engine EXCEPT !.pc = "apply"]
    /\ UNCHANGED <<orderbookVars, ordersRejected, poolCalls, ringVars, separateVars,
                   writer, file, price_indexed_book_, admitted>>

\* ProcessAddOrder: price_indexed_book_.AddOrder(order).
ProcessAddOrderBook ==
    /\ engine.pc = "apply"
    /\ LET o == engine.req.order
       IN  price_indexed_book_' =
              IF o.orderId \in DOMAIN price_indexed_book_
              THEN price_indexed_book_
              ELSE PutKey(price_indexed_book_, o.orderId, o.remainingQuantity)
    /\ engine' = [pc |-> "idle", req |-> NoReq, handled |-> engine.handled + 1]
    /\ UNCHANGED <<orderbookVars, ordersRejected, poolCalls, ringVars, separateVars,
                   journaler, writer, file, admitted>>

\* ProcessCancelOrder: price_indexed_book_.CancelOrder(orderId).
ProcessCancelOrder ==
    /\ engine.pc = "dispatch"
    /\ engine.req.type = "Cancel"
    /\ admitted' = Append(admitted, engine.req)
    /\ price_indexed_book_' = RemoveKey(price_indexed_book_, engine.req.orderId)
    /\ engine' = [pc |-> "idle", req |-> NoReq, handled |-> engine.handled + 1]
    /\ UNCHANGED <<orderbookVars, ordersRejected, poolCalls, ringVars, separateVars,
                   journaler, writer, file>>

\* ProcessModifyOrder: price_indexed_book_.ModifyOrder(modify).
ProcessModifyOrder ==
    /\ engine.pc = "dispatch"
    /\ engine.req.type = "Modify"
    /\ admitted' = Append(admitted, engine.req)
    /\ LET m == engine.req.modify
       IN  price_indexed_book_' =
              IF m.orderId \in DOMAIN price_indexed_book_
              THEN [price_indexed_book_ EXCEPT ![m.orderId] = m.quantity]
              ELSE price_indexed_book_
    /\ engine' = [pc |-> "idle", req |-> NoReq, handled |-> engine.handled + 1]
    /\ UNCHANGED <<orderbookVars, ordersRejected, poolCalls, ringVars, separateVars,
                   journaler, writer, file>>

\* background_worker, the inner loop: one more entry into the batch.
WriterCollect ==
    /\ Len(writer.batch) < BatchSize
    /\ LET r == try_pop(journaler.entry_queue_)
       IN  /\ r.ok
           /\ journaler' = [journaler EXCEPT !.entry_queue_ = r.q]
           /\ writer' = [writer EXCEPT !.batch = Append(@, r.entry)]
    /\ UNCHANGED <<orderbookVars, ordersRejected, poolCalls, ringVars, separateVars,
                   file, engine, price_indexed_book_, admitted>>

\* background_worker: the batch is full or the queue has run dry, and
\* write_batch appends the batch to the file.
WriterWrite ==
    /\ writer.batch # << >>
    /\ Len(writer.batch) = BatchSize \/ ~try_pop(journaler.entry_queue_).ok
    /\ file' = file \o writer.batch
    /\ journaler' = [journaler EXCEPT !.events_logged_ = @ + Len(writer.batch),
                                      !.pending_events_ = @ - Len(writer.batch)]
    /\ writer' = [writer EXCEPT !.batch = << >>]
    /\ UNCHANGED <<orderbookVars, ordersRejected, poolCalls, ringVars, separateVars,
                   engine, price_indexed_book_, admitted>>

JournalNext ==
    \/ \E i \in JournalIds, q \in JournalQuantities :
          EnginePop([type |-> "Add",
                     order |-> Reset("GoodTillCancel", i, "Buy", 1, q)])
    \/ \E i \in JournalIds : EnginePop([type |-> "Cancel", orderId |-> i])
    \/ \E i \in JournalIds :
          EnginePop([type |-> "Modify",
                     modify |-> [orderId |-> i, side |-> "Buy", price |-> 1,
                                 quantity |-> 2]])
    \/ ProcessAddOrderRisk
    \/ ProcessAddOrderLog
    \/ ProcessAddOrderBook
    \/ ProcessCancelOrder
    \/ ProcessModifyOrder
    \/ WriterCollect
    \/ WriterWrite

JournalSpec == Init /\ [][JournalNext]_vars

\* ------------------------- the inner loop against a producer's AcquireOrder
\* The matcher thread inside the inner loop of MatchOrders and a producer
\* thread inside Orderbook::AcquireOrder.  The two share the pool and the
\* Order objects: the matcher's `bid` and `ask` are shared_ptr copies, so the
\* objects stay alive after Release, with their fields as they were until a
\* Reset writes them.  A step is a statement of the loop body or one field
\* assignment of Order::Reset.

MaxAcquires == 1

\* ObjectPool::Release as the object sees it: pushed onto the free list, its
\* fields untouched.
ReleaseObject(b, h) == [b EXCEPT !.pool = Append(@, h)]

\* The assignments of Order::Reset, in order.
ResetFields == <<"orderType", "orderId", "side", "price",
                 "initialQuantity", "remainingQuantity">>

\* What the producers ask AcquireOrder for.
ReuseOrders ==
    {Reset("GoodTillCancel", i, s, p, q) :
        i \in {MaxId}, s \in Sides, p \in Prices, q \in 1..MaxQty}

\* The book when MatchOrders enters its inner loop: a bid and an ask that
\* cross, each alone in its level, placed by two Adds.
CrossedInit ==
    \E pb \in Prices, pa \in Prices, qb \in 1..MaxQty, qa \in 1..MaxQty :
        LET a1 == AcquireOrder(InitBook, "GoodTillCancel", 1, "Buy", pb, qb)
            b1 == HandleAddOrder(a1.b, a1.h, 1).b
            a2 == AcquireOrder(b1, "GoodTillCancel", 2, "Sell", pa, qa)
            b2 == HandleAddOrder(a2.b, a2.h, 2).b
        IN  /\ pa <= pb
            /\ bids = b2.bids
            /\ asks = b2.asks
            /\ orders = b2.orders
            /\ data = b2.data
            /\ mem = b2.mem
            /\ pool = b2.pool
            /\ fault = b2.fault
            /\ placedAt = b2.placedAt
            /\ pc = "match"
            /\ req = [type |-> "Add", order |-> a2.h]
            /\ trades = << >>
            /\ ordersProcessed = 1
            /\ dequeued = 2
            /\ snap = NoSnap
            /\ last = NoLast
            /\ ordersRejected = 0
            /\ OutsideInit

\* Lines 276-282: the heads of the two levels, the quantity, the two fills.
CrossFill ==
    /\ crossing.pc = "top"
    /\ CanCross(Book)
    /\ LET bh == Head(bids[BestBid(Book)])
           ah == Head(asks[BestAsk(Book)])
           quantity == TradeQuantity(mem[bh], mem[ah])
           bid == Fill(mem[bh], quantity)
           ask == Fill(mem[ah], quantity)
       IN  /\ mem' = [mem EXCEPT ![bh] = bid, ![ah] = ask]
           /\ crossing' = [pc |-> "bid", bid |-> bh, ask |-> ah, quantity |-> quantity,
                           bidWas |-> bid, askWas |-> ask]
    /\ UNCHANGED <<bids, asks, orders, data, pool, pc, req, trades, ordersProcessed,
                   dequeued, fault, placedAt, snap, last, ordersRejected,
                   resetting, poolCalls, ringVars, journalVars, drainVars, indexed>>

\* Lines 284-294: if (bid->IsFilled()) { pop_front; erase; Release(bid); }
CrossReleaseBid ==
    /\ crossing.pc = "bid"
    /\ LET b == IF IsFilled(mem[crossing.bid])
                THEN ReleaseObject([Book EXCEPT
                                       !.bids[BestBid(Book)] = Tail(@),
                                       !.orders = RemoveKey(@, mem[crossing.bid].orderId)],
                                   crossing.bid)
                ELSE Book
       IN  /\ bids' = b.bids
           /\ orders' = b.orders
           /\ pool' = b.pool
    /\ crossing' = [crossing EXCEPT !.pc = "ask"]
    /\ UNCHANGED <<asks, data, mem, pc, req, trades, ordersProcessed,
                   dequeued, fault, placedAt, snap, last, ordersRejected,
                   resetting, poolCalls, ringVars, journalVars, drainVars, indexed>>

\* Lines 296-301: if (ask->IsFilled()) { pop_front; erase; Release(ask); }
CrossReleaseAsk ==
    /\ crossing.pc = "ask"
    /\ LET b == IF IsFilled(mem[crossing.ask])
                THEN ReleaseObject([Book EXCEPT
                                       !.asks[BestAsk(Book)] = Tail(@),
                                       !.orders = RemoveKey(@, mem[crossing.ask].orderId)],
                                   crossing.ask)
                ELSE Book
       IN  /\ asks' = b.asks
           /\ orders' = b.orders
           /\ pool' = b.pool
    /\ crossing' = [crossing EXCEPT !.pc = "record"]
    /\ UNCHANGED <<bids, data, mem, pc, req, trades, ordersProcessed,
                   dequeued, fault, placedAt, snap, last, ordersRejected,
                   resetting, poolCalls, ringVars, journalVars, drainVars, indexed>>

\* Lines 303-306: trades.push_back(Trade{...}), from bid->GetOrderId(),
\* bid->GetPrice(), ask->GetOrderId(), ask->GetPrice() as the objects are now.
CrossRecord ==
    /\ crossing.pc = "record"
    /\ trades' = Append(trades, MakeTrade(mem[crossing.bid], mem[crossing.ask],
                                          crossing.quantity))
    /\ crossing' = [crossing EXCEPT !.pc = "notifyBid"]
    /\ UNCHANGED <<bids, asks, orders, data, mem, pool, pc, req, ordersProcessed,
                   dequeued, fault, placedAt, snap, last, ordersRejected,
                   resetting, poolCalls, ringVars, journalVars, drainVars, indexed>>

\* Line 308: OnOrderMatched(bid->GetPrice(), quantity, bid->IsFilled())
CrossNotifyBid ==
    /\ crossing.pc = "notifyBid"
    /\ data' = OnOrderMatched(data, mem[crossing.bid].price, crossing.quantity,
                              IsFilled(mem[crossing.bid]))
    /\ crossing' = [crossing EXCEPT !.pc = "notifyAsk"]
    /\ UNCHANGED <<bids, asks, orders, mem, pool, pc, req, trades, ordersProcessed,
                   dequeued, fault, placedAt, snap, last, ordersRejected,
                   resetting, poolCalls, ringVars, journalVars, drainVars, indexed>>

\* Line 309: OnOrderMatched(ask->GetPrice(), quantity, ask->IsFilled()), and
\* back to the loop's test.
CrossNotifyAsk ==
    /\ crossing.pc = "notifyAsk"
    /\ data' = OnOrderMatched(data, mem[crossing.ask].price, crossing.quantity,
                              IsFilled(mem[crossing.ask]))
    /\ crossing' = [crossing EXCEPT !.pc = "top"]
    /\ UNCHANGED <<bids, asks, orders, mem, pool, pc, req, trades, ordersProcessed,
                   dequeued, fault, placedAt, snap, last, ordersRejected,
                   resetting, poolCalls, ringVars, journalVars, drainVars, indexed>>

\* A producer calls AcquireOrder: orderPool_.Acquire() hands out the back of
\* the free list, or a new object when the list is empty.
ReuseAcquire ==
    /\ resetting.pc = "idle"
    /\ resetting.calls < MaxAcquires
    /\ \E o \in ReuseOrders :
          LET a == Acquire(Book)
          IN  /\ pool' = a.b.pool
              /\ resetting' = [pc |-> "write", order |-> a.h, to |-> o,
                               calls |-> resetting.calls + 1, field |-> 1]
    /\ UNCHANGED <<bids, asks, orders, data, mem, pc, req, trades, ordersProcessed,
                   dequeued, fault, placedAt, snap, last, ordersRejected,
                   crossing, poolCalls, ringVars, journalVars, drainVars, indexed>>

\* One assignment of Order::Reset; after the last one AcquireOrder returns.
ReuseReset ==
    /\ resetting.pc = "write"
    /\ LET f == ResetFields[resetting.field]
       IN  mem' = [mem EXCEPT ![resetting.order] = [@ EXCEPT ![f] = resetting.to[f]]]
    /\ resetting' = IF resetting.field = Len(ResetFields)
                    THEN [pc |-> "idle", order |-> 0, to |-> Blank,
                          calls |-> resetting.calls, field |-> 0]
                    ELSE [resetting EXCEPT !.field = @ + 1]
    /\ UNCHANGED <<bids, asks, orders, data, pool, pc, req, trades, ordersProcessed,
                   dequeued, fault, placedAt, snap, last, ordersRejected,
                   crossing, poolCalls, ringVars, journalVars, drainVars, indexed>>

ReuseNext ==
    \/ CrossFill
    \/ CrossReleaseBid
    \/ CrossReleaseAsk
    \/ CrossRecord
    \/ CrossNotifyBid
    \/ CrossNotifyAsk
    \/ ReuseAcquire
    \/ ReuseReset

ReuseSpec == CrossedInit /\ [][ReuseNext]_vars

\* ------------------------------------------ the journaler's shutdown
\* A thread that calls Log and then shutdown(), and background_worker.

\* try_pop's timeouts: microseconds(10) in the main loop, milliseconds(0) in
\* the flush after it.
CollectTimeout == 10
FlushTimeout == 0

\* What steady_clock::now() - start can be at the first test of try_pop's
\* loop, in microseconds: no time, or the thread was held up for the length
\* of the main loop's timeout.
Elapsed == {0, CollectTimeout}

\* LockFreeQueue::try_pop(entry, timeout): the loop body runs only while
\* now() - start < timeout.
try_pop_within(q, timeout, elapsed) ==
    IF elapsed < timeout THEN try_pop(q)
    ELSE [ok |-> FALSE, q |-> q, entry |-> NoReq]

\* The entries between head_ and tail_, oldest first.
EntriesOf(q) ==
    [k \in 1..Masked(q.tail_ + JournalSize - q.head_) |->
        q.buffer_[Masked(q.head_ + k - 1)]]

\* Some thread calls Log while the journaler runs.
DrainLog ==
    /\ running_
    /\ journaler.sequence_number_ < MaxJournalRequests
    /\ \E i \in JournalIds :
          journaler' = Log(journaler, Reset("GoodTillCancel", i, "Buy", 1, 1))
    /\ UNCHANGED <<orderbookVars, ordersRejected, poolCalls, ringVars, reuseVars, indexed,
                   writer, file, engine, price_indexed_book_, admitted,
                   running_, worker>>

\* shutdown(): running_.store(false); the join waits for the worker.
DrainShutdown ==
    /\ running_
    /\ running_' = FALSE
    /\ UNCHANGED <<orderbookVars, ordersRejected, poolCalls, ringVars, reuseVars, indexed,
                   journalVars, worker>>

\* while (running_.load()): into the body, or past the loop.
WorkerTest ==
    /\ worker.pc = "test"
    /\ worker' = IF running_
                 THEN [worker EXCEPT !.pc = "collect", !.collected = 0]
                 ELSE [worker EXCEPT !.pc = "flush",
                                     !.left = EntriesOf(journaler.entry_queue_)]
    /\ UNCHANGED <<orderbookVars, ordersRejected, poolCalls, ringVars, reuseVars, indexed,
                   journalVars, running_>>

\* while (collected < batch_size_ && try_pop(entry, 10us)): one test, and
\* the body when it passes.
WorkerCollect ==
    /\ worker.pc = "collect"
    /\ \E elapsed \in Elapsed :
          LET r == try_pop_within(journaler.entry_queue_, CollectTimeout, elapsed)
          IN  IF worker.collected < BatchSize /\ r.ok
              THEN /\ journaler' = [journaler EXCEPT !.entry_queue_ = r.q]
                   /\ writer' = [writer EXCEPT !.batch = Append(@, r.entry)]
                   /\ worker' = [worker EXCEPT !.collected = @ + 1]
              ELSE /\ worker' = [worker EXCEPT !.pc = "write"]
                   /\ UNCHANGED <<journaler, writer>>
    /\ UNCHANGED <<orderbookVars, ordersRejected, poolCalls, ringVars, reuseVars, indexed,
                   file, engine, price_indexed_book_, admitted, running_>>

\* if (!batch.empty()) { write_batch(batch); batch.clear(); counters }, and
\* back to the loop's test.
WorkerWrite ==
    /\ worker.pc = "write"
    /\ file' = file \o writer.batch
    /\ journaler' = [journaler EXCEPT !.events_logged_ = @ + worker.collected,
                                      !.pending_events_ = @ - worker.collected]
    /\ writer' = [writer EXCEPT !.batch = << >>]
    /\ worker' = [worker EXCEPT !.pc = "test"]
    /\ UNCHANGED <<orderbookVars, ordersRejected, poolCalls, ringVars, reuseVars, indexed,
                   engine, price_indexed_book_, admitted, running_>>

\* The flush after the main loop: while (try_pop(entry, 0ms)) push_back, one
\* test and the body when it passes.
WorkerFlushCollect ==
    /\ worker.pc = "flush"
    /\ \E elapsed \in Elapsed :
          LET r == try_pop_within(journaler.entry_queue_, FlushTimeout, elapsed)
          IN  IF r.ok
              THEN /\ journaler' = [journaler EXCEPT !.entry_queue_ = r.q]
                   /\ writer' = [writer EXCEPT !.batch = Append(@, r.entry)]
                   /\ UNCHANGED worker
              ELSE /\ worker' = [worker EXCEPT !.pc = "flushWrite"]
                   /\ UNCHANGED <<journaler, writer>>
    /\ UNCHANGED <<orderbookVars, ordersRejected, poolCalls, ringVars, reuseVars, indexed,
                   file, engine, price_indexed_book_, admitted, running_>>

\* if (!batch.empty()) write_batch(batch); background_worker returns.
WorkerFlushWrite ==
    /\ worker.pc = "flushWrite"
    /\ file' = file \o writer.batch
    /\ worker' = [worker EXCEPT !.pc = "exited"]
    /\ UNCHANGED <<orderbookVars, ordersRejected, poolCalls, ringVars, reuseVars, indexed,
                   journaler, writer, engine, price_indexed_book_, admitted, running_>>

DrainNext ==
    \/ DrainLog
    \/ DrainShutdown
    \/ WorkerTest
    \/ WorkerCollect
    \/ WorkerWrite
    \/ WorkerFlushCollect
    \/ WorkerFlushWrite

DrainSpec == Init /\ [][DrainNext]_vars

\* ---------------------------------------------- PriceIndexedOrderbook
\* The array-backed book of ObjectPool.h, under AddOrder, CancelOrder and
\* ModifyOrder with prices between MIN_PRICE and MAX_PRICE.

IndexedPrices == MIN_PRICE..MAX_PRICE

price_to_index(price) ==
    IF price < MIN_PRICE THEN 0
    ELSE IF price > MAX_PRICE THEN PRICE_LEVELS - 1
    ELSE (price - MIN_PRICE) \div TICK_SIZE

\* std::max<int64_t>(0, n)
AtLeastZero(n) == IF n < 0 THEN 0 ELSE n

\* The level after total_quantity and order_count took their deltas.
Adjusted(level, delta_quantity, delta_count) ==
    [level EXCEPT !.total_quantity = AtLeastZero(@ + delta_quantity),
                  !.order_count = AtLeastZero(@ + delta_count)]

update_best_bid(x) ==
    LET filled == {i \in 0..(PRICE_LEVELS - 1) : x.bid_levels_[i].total_quantity > 0}
    IN  [x EXCEPT !.best_bid_price_ =
            IF filled = {} THEN 0 ELSE x.bid_levels_[SetMax(filled)].price]

update_best_ask(x) ==
    LET filled == {i \in 0..(PRICE_LEVELS - 1) : x.ask_levels_[i].total_quantity > 0}
    IN  [x EXCEPT !.best_ask_price_ =
            IF filled = {} THEN MAX_PRICE ELSE x.ask_levels_[SetMin(filled)].price]

UpdateBidLevel(x, price, delta_quantity, delta_count) ==
    LET index == price_to_index(price)
        x1 == [x EXCEPT !.bid_levels_[index] = Adjusted(@, delta_quantity, delta_count)]
    IN  IF index >= PRICE_LEVELS THEN x
        ELSE IF delta_quantity > 0 /\ price > x.best_bid_price_
        THEN [x1 EXCEPT !.best_bid_price_ = price]
        ELSE IF /\ delta_quantity < 0
                /\ price = x.best_bid_price_
                /\ x1.bid_levels_[index].total_quantity = 0
        THEN update_best_bid(x1)
        ELSE x1

UpdateAskLevel(x, price, delta_quantity, delta_count) ==
    LET index == price_to_index(price)
        x1 == [x EXCEPT !.ask_levels_[index] = Adjusted(@, delta_quantity, delta_count)]
    IN  IF index >= PRICE_LEVELS THEN x
        ELSE IF delta_quantity > 0 /\ price < x.best_ask_price_
        THEN [x1 EXCEPT !.best_ask_price_ = price]
        ELSE IF /\ delta_quantity < 0
                /\ price = x.best_ask_price_
                /\ x1.ask_levels_[index].total_quantity = 0
        THEN update_best_ask(x1)
        ELSE x1

\* The level update of the order's side.
UpdateLevel(x, side, price, delta_quantity, delta_count) ==
    IF side = "Buy" THEN UpdateBidLevel(x, price, delta_quantity, delta_count)
    ELSE UpdateAskLevel(x, price, delta_quantity, delta_count)

\* PriceIndexedOrderbook::AddOrder
IndexedAddOrder(x, order) ==
    IF order.orderId \in DOMAIN x.orders_ THEN x
    ELSE UpdateLevel([x EXCEPT !.orders_ = PutKey(@, order.orderId, order)],
                     order.side, order.price, order.remainingQuantity, 1)

\* PriceIndexedOrderbook::CancelOrder
IndexedCancelOrder(x, orderId) ==
    IF orderId \notin DOMAIN x.orders_ THEN x
    ELSE LET order == x.orders_[orderId]
             x1 == UpdateLevel(x, order.side, order.price, -order.remainingQuantity, -1)
         IN  [x1 EXCEPT !.orders_ = RemoveKey(@, orderId)]

\* PriceIndexedOrderbook::ModifyOrder
IndexedModifyOrder(x, modify) ==
    IF modify.orderId \notin DOMAIN x.orders_ THEN x
    ELSE LET existing == x.orders_[modify.orderId]
             x1 == UpdateLevel(x, existing.side, existing.price,
                               -existing.remainingQuantity, -1)
             reset == Reset(existing.orderType, existing.orderId, modify.side,
                            modify.price, modify.quantity)
             x2 == [x1 EXCEPT !.orders_[modify.orderId] = reset]
         IN  UpdateLevel(x2, modify.side, modify.price, reset.remainingQuantity, 1)

RECURSIVE WalkLevels(_, _, _, _)
\* The loops of GetOrderInfos: from index idx in steps of `step` to the end
\* of the array, a LevelInfo for every level with a total quantity.
WalkLevels(levels, idx, step, infos) ==
    IF idx < 0 \/ idx >= PRICE_LEVELS THEN infos
    ELSE WalkLevels(levels, idx + step, step,
                    IF levels[idx].total_quantity = 0 THEN infos
                    ELSE Append(infos, [price |-> levels[idx].price,
                                        quantity |-> levels[idx].total_quantity]))

\* PriceIndexedOrderbook::GetOrderInfos
IndexedGetOrderInfos(x) ==
    [bids |-> IF x.best_bid_price_ > 0
              THEN WalkLevels(x.bid_levels_, price_to_index(x.best_bid_price_), -1, << >>)
              ELSE << >>,
     asks |-> IF x.best_ask_price_ < MAX_PRICE
              THEN WalkLevels(x.ask_levels_, price_to_index(x.best_ask_price_), 1, << >>)
              ELSE << >>]

IndexedAdd ==
    /\ \E i \in JournalIds, s \in Sides, p \in IndexedPrices, q \in 1..MaxQty :
          indexed' = IndexedAddOrder(indexed, Reset("GoodTillCancel", i, s, p, q))
    /\ UNCHANGED <<orderbookVars, ordersRejected, poolCalls, ringVars, journalVars,
                   reuseVars, drainVars>>

IndexedCancel ==
    /\ \E i \in JournalIds : indexed' = IndexedCancelOrder(indexed, i)
    /\ UNCHANGED <<orderbookVars, ordersRejected, poolCalls, ringVars, journalVars,
                   reuseVars, drainVars>>

IndexedModify ==
    /\ \E i \in JournalIds, s \in Sides, p \in IndexedPrices, q \in 1..MaxQty :
          indexed' = IndexedModifyOrder(indexed, [orderId |-> i, side |-> s,
                                                  price |-> p, quantity |-> q])
    /\ UNCHANGED <<orderbookVars, ordersRejected, poolCalls, ringVars, journalVars,
                   reuseVars, drainVars>>

IndexedNext == IndexedAdd \/ IndexedCancel \/ IndexedModify

IndexedSpec == Init /\ [][IndexedNext]_vars

\* ------------------------------------------------------ GetOrderInfos
RECURSIVE CreateLevelInfos(_, _, _)
\* The lambda of GetOrderInfos: the price and the accumulated remaining
\* quantity of the orders of one level's list.
CreateLevelInfos(b, price, list) ==
    IF list = << >> THEN [price |-> price, quantity |-> 0]
    ELSE LET rest == CreateLevelInfos(b, price, Tail(list))
         IN  [rest EXCEPT !.quantity = @ + b.mem[Head(list)].remainingQuantity]

RECURSIVE LevelInfosOf(_, _, _, _)
\* One LevelInfo per key of the map, in the map's iteration order: from the
\* greatest key down for bids_ (std::greater), from the least up for asks_.
LevelInfosOf(b, levels, keys, descending) ==
    IF keys = {} THEN << >>
    ELSE LET price == IF descending THEN SetMax(keys) ELSE SetMin(keys)
         IN  <<CreateLevelInfos(b, price, levels[price])>>
                \o LevelInfosOf(b, levels, keys \ {price}, descending)

\* Orderbook::GetOrderInfos
GetOrderInfos(b) ==
    [bids |-> LevelInfosOf(b, b.bids, DOMAIN b.bids, TRUE),
     asks |-> LevelInfosOf(b, b.asks, DOMAIN b.asks, FALSE)]

\* =====================================================================
\* Properties
\* =====================================================================
RECURSIVE TotalQuantity(_)
TotalQuantity(ts) ==
    IF ts = << >> THEN 0 ELSE Head(ts).bid.quantity + TotalQuantity(Tail(ts))

\* The prices at which at least one order rests, per side.
RestingBidPrices == {p \in DOMAIN bids : bids[p] # << >>}
RestingAskPrices == {p \in DOMAIN asks : asks[p] # << >>}

\* The matcher is between requests: the handler of the last one has returned.
Returned == pc \in {"done", "idle"}

\* A step of MatchOrders that executes a trade.
TradeStep == Len(trades') = Len(trades) + 1

\* The slot in a level that was placed first.
Earliest(level) ==
    CHOOSE h \in Range(level) : \A g \in Range(level) : placedAt[h] <= placedAt[g]

\* C1: once the handler of a request has returned, the book is uncrossed:
\* a side holds no resting order, or the highest resting bid is strictly
\* below the lowest resting ask.
C1_UncrossedAfterRequest ==
    Returned =>
        \/ RestingBidPrices = {}
        \/ RestingAskPrices = {}
        \/ SetMax(RestingBidPrices) < SetMin(RestingAskPrices)

\* An Add has gone through the match loop and both sides hold resting orders.
C1_Witness ==
    /\ pc = "done"
    /\ req.type = "Add"
    /\ req.order \in UNION {Range(bids[p]) : p \in DOMAIN bids}
                     \cup UNION {Range(asks[p]) : p \in DOMAIN asks}
    /\ RestingBidPrices # {}
    /\ RestingAskPrices # {}

\* C2: every request the matcher dequeues is processed to completion: the
\* match loop terminates and ordersProcessed_ catches up with the number of
\* requests dequeued.
C2_ProcessedToCompletion ==
    (ordersProcessed < dequeued) ~> (ordersProcessed = dequeued)

\* C3: no request drives the matcher into a fatal error: no throw from
\* Order::Fill or Order::ToGoodTillCancel, no failed level lookup in
\* CancelOrderInternal, no front() of an empty level in MatchOrders.
C3_NoFatalError == fault = "none"

\* C4: time priority.  A trade is executed against the earliest-placed
\* order resting at the trade's price on each side, and an order the trade
\* leaves partially filled is still the head of its level.
C4_TimePriority ==
    [][TradeStep =>
        LET t == trades'[Len(trades')]
            hb == Earliest(bids[t.bid.price])
            ha == Earliest(asks[t.ask.price])
        IN  /\ mem[hb].orderId = t.bid.orderId
            /\ mem[ha].orderId = t.ask.orderId
            /\ mem'[hb].remainingQuantity > 0 => Head(bids'[t.bid.price]) = hb
            /\ mem'[ha].remainingQuantity > 0 => Head(asks'[t.ask.price]) = ha
      ]_vars

\* A trade was executed against a level that holds two orders, and left the
\* head of that level partially filled.
C4_Witness ==
    /\ pc = "match"
    /\ trades # << >>
    /\ \E p \in DOMAIN asks :
          /\ Len(asks[p]) >= 2
          /\ Last(trades).ask.price = p
          /\ Last(trades).ask.orderId = mem[Head(asks[p])].orderId
          /\ mem[Head(asks[p])].remainingQuantity > 0
          /\ placedAt[asks[p][1]] < placedAt[asks[p][2]]

\* C5: price priority.  No trade is executed against an ask level while a
\* lower-priced ask level holds a resting order, nor against a bid level
\* while a higher-priced bid level holds one.
C5_PricePriority ==
    [][TradeStep =>
        LET t == trades'[Len(trades')]
        IN  /\ \A p \in RestingAskPrices : p >= t.ask.price
            /\ \A p \in RestingBidPrices : p <= t.bid.price
      ]_vars

\* A buy has traded against the lowest ask level while a higher ask level
\* holds a resting order.
C5_Witness ==
    /\ pc = "match"
    /\ trades # << >>
    /\ \E p \in RestingAskPrices : p > Last(trades).ask.price

\* C6: conservation.  A trade has quantity min(bid remaining, ask remaining)
\* of the two head orders, takes exactly that from each of the two and
\* leaves every other order's remaining quantity alone.
C6_Conservation ==
    [][TradeStep =>
        LET t == trades'[Len(trades')]
            hb == Head(bids[SetMax(DOMAIN bids)])
            ha == Head(asks[SetMin(DOMAIN asks)])
            q == Min(mem[hb].remainingQuantity, mem[ha].remainingQuantity)
        IN  /\ t.bid.quantity = q
            /\ t.ask.quantity = q
            /\ mem'[hb].remainingQuantity = mem[hb].remainingQuantity - q
            /\ mem'[ha].remainingQuantity = mem[ha].remainingQuantity - q
            /\ \A h \in Slots \ {hb, ha} :
                  mem'[h].remainingQuantity = mem[h].remainingQuantity
      ]_vars

\* A trade has left one of its two orders partially filled.
C6_Witness ==
    /\ pc = "match"
    /\ trades # << >>
    /\ \E i \in DOMAIN orders :
          LET o == mem[orders[i].order]
          IN  /\ i \in {Last(trades).bid.orderId, Last(trades).ask.orderId}
              /\ 0 < o.remainingQuantity
              /\ o.remainingQuantity < o.initialQuantity

\* C7: a Trade carries the id and the own price of the bid order filled and
\* the id and the own price of the ask order filled, one quantity on both
\* sides, and a buy price that is no less than the sell price.
C7_TradeRecord ==
    [][TradeStep =>
        LET t == trades'[Len(trades')]
            bid == mem[Head(bids[SetMax(DOMAIN bids)])]
            ask == mem[Head(asks[SetMin(DOMAIN asks)])]
        IN  /\ t.bid.orderId = bid.orderId /\ bid.side = "Buy"
            /\ t.bid.price = bid.price
            /\ t.ask.orderId = ask.orderId /\ ask.side = "Sell"
            /\ t.ask.price = ask.price
            /\ t.bid.quantity = t.ask.quantity
            /\ t.bid.price >= t.ask.price
      ]_vars

\* The example of the claim, scaled to the model's prices: a resting Sell
\* id=1 at 1 for 1 and an incoming Buy id=2 at 2 for 2 trade as
\* {buy:{2,2,1}, sell:{1,1,1}}.
C7_Witness ==
    trades = <<[bid |-> [orderId |-> 2, price |-> 2, quantity |-> 1],
                ask |-> [orderId |-> 1, price |-> 1, quantity |-> 1]]>>

\* The order of the Add request being handled, as it was submitted.
Incoming == snap.incoming

RECURSIVE SumRemaining(_, _)
\* The remaining quantities of the orders `ids` of a book view, summed.
SumRemaining(view, ids) ==
    IF ids = {} THEN 0
    ELSE LET i == CHOOSE x \in ids : TRUE
         IN  view.resident[i].remainingQuantity + SumRemaining(view, ids \ {i})

\* The ids of the orders resting in `view` that an order of `side` at
\* `price` crosses.
CrossingIds(view, side, price) ==
    {i \in DOMAIN view.orders :
        LET o == view.resident[i]
        IN  IF side = "Buy" THEN o.side = "Sell" /\ o.price <= price
            ELSE o.side = "Buy" /\ o.price >= price}

\* C8: a FillAndKill Add that some resting opposite-side order crosses
\* trades min(its quantity, the crossing quantity available), and once it
\* has been processed it is not resident.
C8_FillAndKillMatches ==
    LET ids == CrossingIds(snap.view, Incoming.side, Incoming.price)
    IN  (/\ pc = "done"
         /\ req.type = "Add"
         /\ Incoming.orderType = "FillAndKill"
         /\ CheckOrder(Incoming) = "Allowed"
         /\ Incoming.orderId \notin DOMAIN snap.view.orders
         /\ ids # {})
        => /\ TotalQuantity(trades)
                = Min(Incoming.initialQuantity, SumRemaining(snap.view, ids))
           /\ Incoming.orderId \notin DOMAIN orders

\* C9: a FillOrKill Add is all or nothing.  Once it has been processed,
\* either trades for its whole initial quantity were produced, or none was
\* and the book is what it was; and no FillOrKill order is ever in the book.
C9_FillOrKillAllOrNothing ==
    /\ (pc = "done" /\ req.type = "Add" /\ Incoming.orderType = "FillOrKill")
       => \/ /\ trades # << >>
             /\ TotalQuantity(trades) = Incoming.initialQuantity
          \/ /\ trades = << >>
             /\ View(Book) = snap.view
    /\ \A i \in DOMAIN orders : mem[orders[i].order].orderType # "FillOrKill"
    /\ \A p \in DOMAIN bids : \A k \in 1..Len(bids[p]) :
          mem[bids[p][k]].orderType # "FillOrKill"
    /\ \A p \in DOMAIN asks : \A k \in 1..Len(asks[p]) :
          mem[asks[p][k]].orderType # "FillOrKill"

\* The fourth scenario of the specification: a FillOrKill Buy has been
\* processed against resting asks it crosses that hold less than it asks for.
C9_Witness ==
    LET ids == CrossingIds(snap.view, "Buy", Incoming.price)
    IN  /\ pc = "done"
        /\ req.type = "Add"
        /\ Incoming.orderType = "FillOrKill"
        /\ Incoming.side = "Buy"
        /\ Incoming.orderId \notin DOMAIN snap.view.orders
        /\ ids # {}
        /\ SumRemaining(snap.view, ids) < Incoming.initialQuantity

\* C10: CanMatch(side, price) is true exactly when an opposite-side order
\* rests at a crossing price.
C10_CanMatchExact ==
    pc \in {"idle", "dispatch", "done"} =>
        \A s \in Sides, p \in Prices :
            CanMatch(Book, s, p) <=>
                IF s = "Buy" THEN \E a \in RestingAskPrices : a <= p
                ELSE \E x \in RestingBidPrices : x >= p

\* The prices at which the orders of `side` rest in a book view.
RestingPricesOf(view, side) ==
    {view.resident[i].price : i \in {j \in DOMAIN view.orders : view.resident[j].side = side}}

Opposite(side) == IF side = "Buy" THEN "Sell" ELSE "Buy"

\* C11: CanFullyFill(side, price, quantity) is true exactly when the
\* quantities resting on the opposite side at eligible prices (asks at or
\* below price for a buy, bids at or above price for a sell) sum to at least
\* quantity.
C11_CanFullyFillExact ==
    pc \in {"idle", "dispatch", "done"} =>
        \A s \in Sides, p \in Prices, q \in 1..MaxQty :
            CanFullyFill(Book, s, p, q) <=>
                SumRemaining(View(Book), CrossingIds(View(Book), s, p)) >= q

\* C12: a Market Add processed while the opposite side holds resting orders
\* enters the match loop as a GoodTillCancel order priced at the worst
\* resting opposite-side price: the highest resting ask for a buy, the
\* lowest resting bid for a sell.
C12_MarketBoundToWorstResting ==
    LET opp == RestingPricesOf(snap.view, Opposite(Incoming.side))
    IN  (/\ pc = "match"
         /\ trades = << >>
         /\ req.type = "Add"
         /\ Incoming.orderType = "Market"
         /\ opp # {})
        => /\ mem[req.order].orderType = "GoodTillCancel"
           /\ mem[req.order].price
                = IF Incoming.side = "Buy" THEN SetMax(opp) ELSE SetMin(opp)

\* C13: a Market Add processed while the opposite side holds no resting
\* order leaves bids, asks, the id index and the level aggregates as they
\* were, produces no trade and does not rest.
C13_MarketNoLiquidityNoOp ==
    (/\ pc \in {"match", "residue", "done"}
     /\ req.type = "Add"
     /\ Incoming.orderType = "Market"
     /\ RestingPricesOf(snap.view, Opposite(Incoming.side)) = {})
    => /\ View(Book) = snap.view
       /\ trades = << >>

\* The places in the two price maps at which an order with id i sits.
Positions(i) ==
    {x \in {"Buy"} \X Prices \X (1..MaxId + 1) :
        /\ x[2] \in DOMAIN bids
        /\ x[3] <= Len(bids[x[2]])
        /\ mem[bids[x[2]][x[3]]].orderId = i}
    \cup
    {x \in {"Sell"} \X Prices \X (1..MaxId + 1) :
        /\ x[2] \in DOMAIN asks
        /\ x[3] <= Len(asks[x[2]])
        /\ mem[asks[x[2]][x[3]]].orderId = i}

\* The matcher has taken the request in hand and has not died over it.
Handled == pc \in {"match", "residue", "done"}

\* C14: an Add whose order id is already resident is rejected silently:
\* bids, asks, the id index and the level aggregates stay as they were and
\* no trade is produced; and no id is resident twice.
C14_DuplicateAddRejected ==
    /\ (/\ Handled
         /\ req.type = "Add"
         /\ Incoming.orderId \in DOMAIN snap.view.orders)
        => /\ pc = "done"
           /\ View(Book) = snap.view
           /\ trades = << >>
    /\ \A i \in Ids : Cardinality(Positions(i)) <= 1

\* An Add that passed the risk gate with the id of a resident order has
\* been processed.
C14_Witness ==
    /\ pc = "done"
    /\ req.type = "Add"
    /\ CheckOrder(Incoming) = "Allowed"
    /\ Incoming.orderId \in DOMAIN snap.view.orders

\* The order id a Cancel or Modify request names.
RequestedId == IF req.type = "Cancel" THEN req.orderId ELSE req.modify.orderId

\* C15: a Cancel or Modify of an order id that is not resident is a silent
\* no-op: bids, asks, the id index, the level aggregates and the pool stay
\* as they were and no trade is produced.
C15_UnknownIdNoOp ==
    (/\ Handled
     /\ req.type \in {"Cancel", "Modify"}
     /\ RequestedId \notin DOMAIN snap.view.orders)
    => /\ pc = "done"
       /\ View(Book) = snap.view
       /\ pool = snap.pool
       /\ trades = << >>

\* A Modify of an id that is not resident has been processed on a book that
\* holds another order.
C15_Witness ==
    /\ pc = "done"
    /\ req.type = "Modify"
    /\ req.modify.orderId \notin DOMAIN snap.view.orders
    /\ DOMAIN orders # {}

\* C16: round trip.  An Add of an order whose id was not resident and that
\* did not trade on entry, followed by the Cancel of that id, returns both
\* price maps, every level FIFO, the id index and the level aggregates to
\* what they were before the Add.
C16_AddCancelRoundTrip ==
    (/\ pc = "done"
     /\ req.type = "Cancel"
     /\ last # NoLast
     /\ req.orderId = last.orderId)
    => View(Book) = last.view

\* What the handlers make of Cancel(m.orderId) followed by the Add of a new
\* order with the same id, the discipline of the order cancelled and the
\* side, price and quantity of m: CancelOrderInternal, then the producer's
\* AcquireOrder, then HandleAddOrder up to its call of MatchOrders.
CancelThenAdd(b, m, n) ==
    LET orderType == b.mem[b.orders[m.orderId].order].orderType
        cancelled == CancelOrderInternal(b, m.orderId)
        a == AcquireOrder(cancelled, orderType, m.orderId, m.side, m.price, m.quantity)
    IN  IF cancelled.fault \in Thrown THEN [b |-> cancelled, placed |-> FALSE]
        ELSE HandleAddOrder(a.b, a.h, n)

\* C17: the Modify of a resident order leaves the book as the handling of
\* Cancel(id) followed by that of an Add of a new order with the same id,
\* the original discipline and the new side, price and quantity leaves it,
\* and goes into the match loop exactly when that Add does (so the trades
\* are the same); the order placed is the tail of its target level.
C17_ModifyIsCancelThenAdd ==
    [][(/\ pc = "dispatch"
        /\ req.type = "Modify"
        /\ req.modify.orderId \in DOMAIN orders
        /\ pc' # pc)
       => LET m == req.modify
              r == CancelThenAdd(Book, m, dequeued)
          IN  /\ View(Book') = View(r.b)
              /\ pool' = r.b.pool
              /\ (pc' = "match") <=> r.placed
              /\ trades' = << >>
              /\ pc' = "match" =>
                    LET e == orders'[m.orderId]
                        level == IF m.side = "Buy" THEN bids' ELSE asks'
                    IN  /\ e.location = [side |-> m.side, price |-> m.price]
                        /\ mem'[e.order] = Reset(snap.view.resident[m.orderId].orderType,
                                                 m.orderId, m.side, m.price, m.quantity)
                        /\ Last(level[m.price]) = e.order
      ]_vars

\* A Modify that changes nothing about the order at the head of a level of
\* two has been handled: the order is now the tail of that level.
C17_Witness ==
    /\ pc = "match"
    /\ trades = << >>
    /\ req.type = "Modify"
    /\ req.modify.orderId \in DOMAIN snap.view.orders
    /\ req.modify.side = "Buy"
    /\ LET m == req.modify
           was == snap.view.resident[m.orderId]
       IN  /\ was.side = "Buy" /\ was.price = m.price
           /\ was.remainingQuantity = m.quantity
           /\ Len(snap.view.bids[m.price]) = 2
           /\ snap.view.orders[m.orderId].order = snap.view.bids[m.price][1]
           /\ Len(bids[m.price]) = 2
           /\ mem[bids[m.price][2]].orderId = m.orderId

\* C18: CheckOrder depends on the order and the configured limits alone.
\* It rejects for quantity when the initial quantity exceeds
\* maxOrderQuantity; otherwise for price when the order is no Market order
\* and its price is outside [minPrice, maxPrice]; otherwise it allows the
\* order; a Market order is never rejected for its price.  ProcessRequests
\* hands the order back to the pool exactly when the result is not Allowed.
C18_CheckOrderDecision ==
    req.type = "Add" =>
        LET o == Incoming
            result == CheckOrder(mem[req.order])
            inRange == minPrice <= o.price /\ o.price <= maxPrice
            overQuantity == o.initialQuantity > maxOrderQuantity
        IN  /\ pc = "dispatch" => mem[req.order] = o
            /\ pc = "dispatch" =>
                  /\ overQuantity => result = "RejectedMaxQty"
                  /\ (~overQuantity /\ o.orderType # "Market" /\ ~inRange)
                        => result = "RejectedPriceRange"
                  /\ (~overQuantity /\ (o.orderType = "Market" \/ inRange))
                        => result = "Allowed"
                  /\ o.orderType = "Market" => result # "RejectedPriceRange"
            /\ Handled =>
                  (req.order \in Range(pool)
                     <=> (overQuantity \/ (o.orderType # "Market" /\ ~inRange)))

\* An Add within the quantity limit and priced below minPrice has been
\* rejected for its price.
C18_Witness ==
    /\ pc = "done"
    /\ req.type = "Add"
    /\ Incoming.initialQuantity <= maxOrderQuantity
    /\ Incoming.price < minPrice
    /\ Incoming.orderType # "Market"
    /\ req.order \in Range(pool)

\* How often x occurs in seq.
Occurrences(seq, x) == Cardinality({k \in 1..Len(seq) : seq[k] = x})

\* C19: a risk-rejected Add is terminal for its request: bids, asks, the id
\* index and the level aggregates stay as they were, no trade is produced,
\* the order's slot is back in the pool and the rejection counter has gone
\* up by one.
C19_RiskRejectTerminal ==
    (/\ Handled
     /\ req.type = "Add"
     /\ CheckOrder(Incoming) # "Allowed")
    => /\ pc = "done"
       /\ View(Book) = snap.view
       /\ trades = << >>
       /\ Occurrences(pool, req.order) = 1
       /\ ordersRejected = snap.ordersRejected + 1

\* The order records the matcher had to deal with in the request: the
\* order of an Add, and the orders that were resident.
HandedOver ==
    (IF req.type = "Add" THEN {req.order} ELSE {})
        \cup {snap.view.orders[i].order : i \in DOMAIN snap.view.orders}

ResidentSlots == {orders[i].order : i \in DOMAIN orders}

\* C20: once a request has been processed, every order record handed to the
\* matcher that is not resident (cancelled, fully filled, risk-rejected or
\* dropped) is in the pool, once.
C20_NonResidentReturnedOnce ==
    pc = "done" =>
        \A h \in HandedOver \ ResidentSlots : Occurrences(pool, h) = 1

\* C21: an Acquire that finds the free list empty does not fail: it returns a
\* slot that no thread holds and that is not in the free list, and the
\* exhaustion is recorded, that is, the pool is not the same after the step:
\* some member of it (a counter of exhaustions) has changed.
ExhaustedAcquire ==
    /\ acquiring.pc = "locked"
    /\ acquiring'.pc = "unlock"
    /\ pool = << >>

C21_ExhaustedAcquireRecorded ==
    [][ExhaustedAcquire =>
          /\ acquiring'.order \in Slots \ (Outstanding \cup Range(pool))
          /\ <<pool, mutex_>>' # <<pool, mutex_>>]_vars

\* C25: the matcher never waits for a lock: when it is about to take the
\* pool's mutex to return a slot, no producer holds that mutex.
C25_MatcherNeverWaits ==
    releasing.pc = "lock" => mutex_ # "producer"

\* The Requests pushed and not yet popped, by the histories.
Queued == Len(pushed) - Len(popped)

IsPrefix(s, t) == Len(s) <= Len(t) /\ \A i \in 1..Len(s) : s[i] = t[i]

\* The Requests in the ring's slots from head_ up to tail_, oldest first.
QueuedItems ==
    [k \in 1..Size(requestQueue) |->
        requestQueue.buffer_[(requestQueue.head_ + k - 1) % RingSize]]

\* The matcher is inside the handling of a request it popped.
Handling == pc \in {"dispatch", "match", "residue", "done", "aborted"}

\* C22: with one producer and the matcher as consumer, whatever the
\* interleaving of the steps of Push and Pop, the Requests popped are the
\* Requests pushed, each once and in push order; the matcher handles the
\* k-th pushed Request as its k-th, and the trades it emits are those of the
\* Request it is handling.
C22_DeliveredOnceInOrder ==
    /\ IsPrefix(popped, pushed)
    /\ \A i, j \in 1..Len(popped) : i # j => popped[i] # popped[j]
    /\ dequeued = Len(popped)
    /\ Handling => req = pushed[dequeued]
    /\ trades # << >> => Handling /\ req = pushed[dequeued]

C22_Witness ==
    /\ Len(popped) >= 2
    /\ Queued >= 1
    /\ trades # << >>

\* C23: Pop fails exactly when no Request is queued, Push fails exactly when
\* Capacity() Requests are queued, and the slot a successful Push writes
\* holds no Request that is still to be popped.
C23_RingBounds ==
    [][/\ (pc = "pop" /\ pc' # "pop") => (pc' = "idle" <=> Queued = 0)
       /\ (producer.pc = "push" /\ producer'.pc # "push")
              => (producer'.pc = "yield" <=> Queued = Capacity)
       /\ (producer.pc = "write" /\ producer'.pc = "publish")
              => requestQueue.buffer_[requestQueue.tail_] \in {NoReq} \cup Range(popped)
      ]_vars

\* C24: AddOrder, CancelOrder and ModifyOrder neither drop nor duplicate a
\* Request, full ring or not: the ring holds exactly the Requests pushed and
\* not yet popped; and with the matcher running, every call that has started
\* returns, its Request enqueued.
C24_SubmitEnqueuesOnce ==
    /\ [](QueuedItems = SubSeq(pushed, Len(popped) + 1, Len(pushed)))
    /\ [](\A k \in 1..Len(pushed) : pushed[k].timestamp = k)
    /\ (producer.pc # "idle" ~> producer.pc = "idle")

\* C26: no step of a producer (AcquireOrder, AddOrder, CancelOrder,
\* ModifyOrder) changes the bids, the asks, the id index, the level
\* aggregates or a resident order.
C26_ProducersLeaveBookAlone ==
    [][producer' # producer => View(Book)' = View(Book)]_vars

C26_Witness ==
    /\ orders # << >>
    /\ producer.pc = "publish"
    /\ producer.item.type = "Cancel"
    /\ producer.item.orderId \in DOMAIN orders

\* C27: the matcher exits only after shutdown_ is set and with the ring
\* empty and every pushed Request handled; and once shutdown_ is set (the
\* producers having stopped) the matcher exits, so that join() returns.
C27_ShutdownDrains ==
    /\ [](pc = "exited" =>
            /\ shutdown_
            /\ IsEmpty(requestQueue)
            /\ popped = pushed
            /\ ordersProcessed = Len(pushed))
    /\ (shutdown_ ~> pc = "exited")

\* The entries in the journal ring, oldest first.
JournalQueued(j) ==
    LET q == j.entry_queue_
        n == Masked(q.tail_ + JournalSize - q.head_)
    IN  [k \in 1..n |-> q.buffer_[Masked(q.head_ + k - 1)]]

JournalFull(j) == Len(JournalQueued(j)) = JournalSize - 1

LogStep == engine.pc = "log" /\ engine'.pc = "apply"

\* C28: Log never waits for the writer: it can always be taken; when the
\* journal ring is full it leaves the ring alone and adds exactly one to
\* dropped_events_; otherwise it appends the entry to the ring, once, and
\* counts no drop.
C28_LogNeverBlocks ==
    [][/\ engine.pc = "log" => ENABLED ProcessAddOrderLog
       /\ LogStep =>
             IF JournalFull(journaler)
             THEN /\ JournalQueued(journaler') = JournalQueued(journaler)
                  /\ journaler'.dropped_events_ = journaler.dropped_events_ + 1
             ELSE /\ JournalQueued(journaler') =
                        Append(JournalQueued(journaler),
                               [convert_to_journal_entry(engine.req.order) EXCEPT
                                   !.sequence_number = journaler.sequence_number_])
                  /\ journaler'.dropped_events_ = journaler.dropped_events_
      ]_vars

C28_Witness ==
    /\ journaler.dropped_events_ > 0
    /\ journaler.pending_events_ > 0
    /\ file # << >>

\* C29: the entries in the file are in sequence order without a gap: each
\* entry's sequence number is one more than that of the entry before it.
C29_FileGapless ==
    \A k \in 1..(Len(file) - 1) :
        file[k + 1].sequence_number = file[k].sequence_number + 1

\* C30: when the engine mutates the book for a request, and when it is done
\* with it, it has handed the journaler one entry for every request it
\* admitted, of whatever kind, and none for a rejected Add: the entries
\* handed over are as many as the admitted requests.
C30_OneEntryPerAdmitted ==
    engine.pc \in {"apply", "idle"} => journaler.sequence_number_ = Len(admitted)

RECURSIVE RemainingOf(_)
\* The remaining quantities of the orders in the slots hs, summed.
RemainingOf(hs) ==
    IF hs = {} THEN 0
    ELSE LET h == CHOOSE x \in hs : TRUE
         IN  mem[h].remainingQuantity + RemainingOf(hs \ {h})

\* The listing `infos` of one side shows exactly the prices in `resting`,
\* each once, each with the quantity resting there.
ListsExactly(infos, levels, resting) ==
    /\ {infos[k].price : k \in 1..Len(infos)} = resting
    /\ Len(infos) = Cardinality(resting)
    /\ \A k \in 1..Len(infos) :
          infos[k].price \in DOMAIN levels
             => infos[k].quantity = RemainingOf(Range(levels[infos[k].price]))

\* C31: between requests GetOrderInfos lists exactly the prices at which an
\* order rests, bids from the highest price down and asks from the lowest up,
\* each with the sum of the remaining quantities resting at that price.
C31_SnapshotListsRestingLevels ==
    Returned =>
        LET infos == GetOrderInfos(Book)
        IN  /\ ListsExactly(infos.bids, bids, RestingBidPrices)
            /\ ListsExactly(infos.asks, asks, RestingAskPrices)
            /\ \A k \in 1..(Len(infos.bids) - 1) :
                  infos.bids[k].price > infos.bids[k + 1].price
            /\ \A k \in 1..(Len(infos.asks) - 1) :
                  infos.asks[k].price < infos.asks[k + 1].price

\* The slots of the orders held in the bid and ask lists.
Listed ==
    UNION ({Range(bids[p]) : p \in DOMAIN bids} \cup {Range(asks[p]) : p \in DOMAIN asks})

\* C32: between requests every order in the book has a remaining quantity
\* above zero, so no filled order is resident, and every trade emitted is for
\* a quantity of at least 1.
C32_ResidentsUnfilled ==
    /\ Returned => \A h \in Listed : mem[h].remainingQuantity > 0
    /\ \A k \in 1..Len(trades) :
          trades[k].bid.quantity >= 1 /\ trades[k].ask.quantity >= 1

\* C33: between requests no price of bids_ or asks_ maps to an empty list;
\* the cancel or fill that takes the last order of a level removes the level
\* in the same step.
C33_NoEmptyLevelKept ==
    Returned => /\ \A p \in DOMAIN bids : Len(bids[p]) >= 1
                /\ \A p \in DOMAIN asks : Len(asks[p]) >= 1

\* The slots of the orders resting at price p, on either side.
RestingAt(p) ==
    (IF p \in DOMAIN bids THEN Range(bids[p]) ELSE {})
       \cup (IF p \in DOMAIN asks THEN Range(asks[p]) ELSE {})

\* C34: after every Add, Cancel, Modify and fill the aggregate of every price
\* at which orders rest counts the orders of that level and totals their
\* remaining quantities, and a price at which nothing rests has no aggregate.
C34_AggregatesMatchLevels ==
    \A p \in Prices \cup DOMAIN data :
       IF RestingAt(p) # {}
       THEN /\ p \in DOMAIN data
            /\ data[p].count = Cardinality(RestingAt(p))
            /\ data[p].quantity = RemainingOf(RestingAt(p))
       ELSE p \notin DOMAIN data

\* A fill has left an order resting with less than its initial quantity
\* next to another order of the same level.
C34_Witness ==
    /\ trades # << >>
    /\ \E p \in DOMAIN data :
          /\ Cardinality(RestingAt(p)) = 2
          /\ data[p].quantity < MaxQty + MaxQty
          /\ \E h \in RestingAt(p) : mem[h].remainingQuantity < mem[h].initialQuantity

\* C35: the remaining quantity of every order lies between zero and its
\* initial quantity at all times, and Fill is never asked for more than the
\* order has left.
C35_RemainingWithinInitial ==
    /\ \A h \in Slots : /\ mem[h].remainingQuantity >= 0
                        /\ mem[h].remainingQuantity <= mem[h].initialQuantity
    /\ fault # "logic_error"

\* A resting order has been filled in part.
C35_Witness ==
    /\ trades # << >>
    /\ \E h \in Listed : /\ mem[h].remainingQuantity >= 1
                         /\ mem[h].remainingQuantity < mem[h].initialQuantity

\* The number of places in the lists of `levels` that hold the slot h.
PlacesIn(levels, h) ==
    Cardinality({<<p, k>> \in Prices \X (1..(MaxId + 1)) :
                    p \in DOMAIN levels /\ k \in DOMAIN levels[p] /\ levels[p][k] = h})

\* C36: between requests orders_ holds exactly the ids of the orders in the
\* bid and ask lists, every id once, and the position stored with an id is
\* the place of that order in the level of its own side and price.
C36_IndexMatchesLevels ==
    Returned =>
        /\ DOMAIN orders = {mem[h].orderId : h \in Listed}
        /\ \A h \in Listed :
              /\ PlacesIn(bids, h) + PlacesIn(asks, h) = 1
              /\ \A g \in Listed : mem[g].orderId = mem[h].orderId => g = h
        /\ \A id \in DOMAIN orders :
              LET entry == orders[id]
                  o == mem[entry.order]
                  levels == IF o.side = "Sell" THEN asks ELSE bids
              IN  /\ o.orderId = id
                  /\ entry.location = [side |-> o.side, price |-> o.price]
                  /\ o.price \in DOMAIN levels
                  /\ entry.order \in Range(levels[o.price])

\* Two bids share a level and an ask rests above them.
C36_Witness ==
    /\ Returned
    /\ Cardinality(DOMAIN orders) = 3
    /\ \E p \in DOMAIN bids : Len(bids[p]) = 2
    /\ \E p \in DOMAIN asks : Len(asks[p]) = 1

\* C38: every order resident on the book is within the risk limits, whether
\* an Add or a Modify placed it: initial quantity at most maxOrderQuantity
\* and price between minPrice and maxPrice.
C38_ResidentsWithinRiskLimits ==
    Returned => \A h \in Listed :
                   /\ mem[h].initialQuantity <= maxOrderQuantity
                   /\ mem[h].price >= minPrice
                   /\ mem[h].price <= maxPrice

\* C37: the trade recorded for a fill and the aggregates after it are those
\* of the two orders as the fill left them, whatever a producer does with a
\* slot the matcher has released.
C37_ReleasedSlotNotRead ==
    /\ crossing.pc \in {"notifyBid", "notifyAsk"}
          => Last(trades) = MakeTrade(crossing.bidWas, crossing.askWas, crossing.quantity)
    /\ crossing.pc = "top" => C34_AggregatesMatchLevels

\* C39: once the worker has exited after a shutdown, every entry that was
\* in the ring when it left its main loop is in the file.
C39_ShutdownFlushesRing ==
    worker.pc = "exited"
       => \A k \in 1..Len(worker.left) :
             \E n \in 1..Len(file) : file[n] = worker.left[k]

RECURSIVE FilledLevels(_, _, _)
\* The levels among `indices` that have a total quantity, as LevelInfos, from
\* the highest price down or from the lowest up.
FilledLevels(levels, indices, descending) ==
    LET filled == {i \in indices : levels[i].total_quantity > 0}
    IN  IF filled = {} THEN << >>
        ELSE LET i == IF descending THEN SetMax(filled) ELSE SetMin(filled)
             IN  <<[price |-> levels[i].price, quantity |-> levels[i].total_quantity]>>
                    \o FilledLevels(levels, filled \ {i}, descending)

\* C40: after any AddOrder, CancelOrder and ModifyOrder calls with prices
\* from MIN_PRICE to MAX_PRICE, GetOrderInfos lists exactly the levels with a
\* positive total quantity, bids from the highest such price down and asks
\* from the lowest up, a level at MAX_PRICE included.
C40_IndexedSnapshotListsFilledLevels ==
    LET infos == IndexedGetOrderInfos(indexed)
        all == 0..(PRICE_LEVELS - 1)
    IN  /\ infos.bids = FilledLevels(indexed.bid_levels_, all, TRUE)
        /\ infos.asks = FilledLevels(indexed.ask_levels_, all, FALSE)
====
